---- MODULE Spec2Model ----
(***************************************************************************)
(* Fusion Engine: cross-project entity resolution, the orchestrated        *)
(* pipeline (validation, scan, resolve-and-merge, normalize, merge,        *)
(* render) and the per-project dependency-graph builder.                   *)
(*                                                                         *)
(* Conventions.  A JavaScript Map or object with string keys is a sequence *)
(* of <<key, value>> pairs in insertion order.  An absent property of an   *)
(* object is an absent field of the record, so hasOwnProperty(e, p) is     *)
(* p \in DOMAIN e and reading a property of `undefined` is modelled as the *)
(* TypeError the runtime throws.  The text of a source file is opaque: it  *)
(* is identified by the absolute path it was read from.                    *)
(***************************************************************************)
EXTENDS Integers, Sequences, FiniteSets, TLC

(***************************************************************************)
(* Bounds of the model.                                                    *)
(***************************************************************************)
\* number of input projects handed to the orchestrator
MaxProjects == 2
MaxFiles == 2

\* The state of a run of the orchestrator, and of a call of
\* buildDependencyGraph.
VARIABLES step, context, result, mergeCalls,
          analysis, nodes, edges, processedEdges, unresolvedImports, cursor, graph,
          firstRun

pvars == <<step, context, result, mergeCalls>>
gvars == <<analysis, nodes, edges, processedEdges, unresolvedImports, cursor, graph>>
\* what an earlier call on the same snapshot returned, kept by the caller
rvars == <<firstRun>>
vars == <<pvars, gvars, rvars>>

(***************************************************************************)
(* Generic helpers.                                                        *)
(***************************************************************************)
RECURSIVE Flatten(_)
Flatten(ss) == IF ss = <<>> THEN <<>> ELSE Head(ss) \o Flatten(Tail(ss))

Range(s) == {s[i] : i \in DOMAIN s}

RECURSIVE SumSeq(_)
SumSeq(s) == IF s = <<>> THEN 0 ELSE Head(s) + SumSeq(Tail(s))

\* Map.has / Map.get / Map.set on a sequence of <<key, value>> pairs.
MapHas(m, k) == \E i \in DOMAIN m : m[i][1] = k
MapGet(m, k) == m[CHOOSE i \in DOMAIN m : m[i][1] = k][2]
MapSet(m, k, v) ==
    IF MapHas(m, k)
    THEN [i \in DOMAIN m |-> IF m[i][1] = k THEN <<k, v>> ELSE m[i]]
    ELSE Append(m, <<k, v>>)

\* byName.set(n, (byName.get(n) || []).concat(v)) for every pair <<n, v>>.
RECURSIVE GroupPairs(_, _)
GroupPairs(m, pairs) ==
    IF pairs = <<>> THEN m
    ELSE LET n == Head(pairs)[1]
             v == Head(pairs)[2]
             old == IF MapHas(m, n) THEN MapGet(m, n) ELSE <<>>
         IN GroupPairs(MapSet(m, n, Append(old, v)), Tail(pairs))

(***************************************************************************)
(* Names are JavaScript strings; Chars gives the spelling of the names the *)
(* inputs use, so that the slug of a name is computed, not assumed.        *)
(***************************************************************************)
Chars(name) ==
    CASE name = "Button"     -> <<"B", "u", "t", "t", "o", "n">>
      [] name = "formatDate" -> <<"f", "o", "r", "m", "a", "t", "D", "a", "t", "e">>
      [] name = "Card"       -> <<"C", "a", "r", "d">>
      [] name = "useState"   -> <<"u", "s", "e", "S", "t", "a", "t", "e">>
      [] name = "formatdate" -> <<"f", "o", "r", "m", "a", "t", "d", "a", "t", "e">>
      [] OTHER               -> <<name>>

UpperLetters == <<"A","B","C","D","E","F","G","H","I","J","K","L","M",
                  "N","O","P","Q","R","S","T","U","V","W","X","Y","Z">>
LowerLetters == <<"a","b","c","d","e","f","g","h","i","j","k","l","m",
                  "n","o","p","q","r","s","t","u","v","w","x","y","z">>
Digits == {"0","1","2","3","4","5","6","7","8","9"}

toLowerCase(c) ==
    IF \E i \in DOMAIN UpperLetters : UpperLetters[i] = c
    THEN LowerLetters[CHOOSE i \in DOMAIN UpperLetters : UpperLetters[i] = c]
    ELSE c

IsSlugChar(c) == c \in Range(LowerLetters) \cup Digits

\* .replace(/[^a-z0-9]+/g, '-'): every maximal run of other characters
\* becomes one dash.
RECURSIVE ReplaceRuns(_, _)
ReplaceRuns(cs, inRun) ==
    IF cs = <<>> THEN <<>>
    ELSE IF IsSlugChar(Head(cs)) THEN <<Head(cs)>> \o ReplaceRuns(Tail(cs), FALSE)
    ELSE IF inRun THEN ReplaceRuns(Tail(cs), TRUE)
    ELSE <<"-">> \o ReplaceRuns(Tail(cs), TRUE)

\* .replace(/^-|-$/g, ''): one leading and one trailing dash are removed.
TrimDashes(cs) ==
    LET a == IF cs # <<>> /\ Head(cs) = "-" THEN Tail(cs) ELSE cs
    IN IF a # <<>> /\ a[Len(a)] = "-" THEN SubSeq(a, 1, Len(a) - 1) ELSE a

Slug(name) ==
    TrimDashes(ReplaceRuns([i \in DOMAIN Chars(name) |-> toLowerCase(Chars(name)[i])], FALSE))

EntityFolder(entityType) ==
    CASE entityType = "component" -> "components"
      [] entityType = "hook"      -> "hooks"
      [] entityType = "context"   -> "contexts"
      [] entityType = "utility"   -> "utils"
      [] OTHER                    -> "common"

\* The mutant of generateUnifiedPath: the name is not lower-cased.
generateUnifiedPathCased(name, entityType) ==
    <<"merged", EntityFolder(entityType), TrimDashes(ReplaceRuns(Chars(name), FALSE)), ".ts">>

\* path.join(folder, `${slug}.ts`) as the tuple of its parts.
generateUnifiedPath(name, entityType) ==
    <<"merged", EntityFolder(entityType), Slug(name), ".ts">>

\* generateUnifiedPath of the single-pass resolver (resolveStep.ts), which
\* has its own copy of the function.
resolveStep_generateUnifiedPath(name, type) ==
    LET lower == [i \in DOMAIN Chars(name) |-> toLowerCase(Chars(name)[i])]
        slug == TrimDashes(ReplaceRuns(lower, FALSE))
        folder == IF type = "component" THEN "components"
                  ELSE IF type = "hook" THEN "hooks"
                  ELSE IF type = "context" THEN "contexts"
                  ELSE IF type = "utility" THEN "utils"
                  ELSE "common"
    IN <<"merged", folder, slug, ".ts">>

(***************************************************************************)
(* The per-file analysis record (ASTDependency) and a project.             *)
(***************************************************************************)
NoRole == "undefined"

Component(name, isFunctional, hoc) ==
    [name |-> name, isExported |-> TRUE, isFunctional |-> isFunctional, inferredHOC |-> hoc]

ExportedFunction(name) == [name |-> name, isExported |-> TRUE]

Analysis(project, relPath, role, loc, comps, funcs) ==
    [file |-> [relativePath |-> relPath,
               absolutePath |-> <<project, relPath>>,
               inferredRole |-> role],
     loc |-> loc,
     components |-> comps,
     functions |-> funcs,
     declaredVariables |-> <<>>,
     contextAPIs |-> <<>>,
     exports |-> [i \in DOMAIN comps |-> [name |-> comps[i].name, type |-> "component"]]
                 \o [i \in DOMAIN funcs |-> [name |-> funcs[i].name, type |-> "function"]],
     jsxElementsUsed |-> <<>>,
     reactHooksUsed |-> <<>>]

\* fileAnalysis.file.inferredRole || 'unknown'
RoleOf(a) == IF a.file.inferredRole = NoRole THEN "unknown" ELSE a.file.inferredRole

(***************************************************************************)
(* Conflict detection (resolveAndMergeStep.ts).  A conflict keeps its      *)
(* type, severity, the variable parts of its message (entity type and      *)
(* name) and relatedFiles.                                                 *)
(***************************************************************************)
Conflict(type, severity, entityType, name, first, cur) ==
    [type |-> type, severity |-> severity,
     message |-> [entityType |-> entityType, name |-> name],
     relatedFiles |-> <<first.file.relativePath, cur.file.relativePath>>]

\* new Map(profile.map(item => [item.name, item.count])): the last entry
\* of a name wins.
ProfileMap(p) ==
    [n \in {p[i].name : i \in DOMAIN p} |->
        p[CHOOSE i \in DOMAIN p :
            p[i].name = n /\ \A j \in DOMAIN p : p[j].name = n => j <= i].count]

\* The mutant of compareNameCountProfiles: the lists are compared in order.
compareNameCountProfilesInOrder(profile1, profile2) == profile1 = profile2

compareNameCountProfiles(profile1, profile2) ==
    LET map1 == ProfileMap(profile1)
        map2 == ProfileMap(profile2)
    IN /\ Len(profile1) = Len(profile2)
       /\ Cardinality(DOMAIN map1) = Cardinality(DOMAIN map2)
       /\ \A n \in DOMAIN map1 : n \in DOMAIN map2 /\ map2[n] = map1[n]

\* components.find(c => c.name === name): index of the first match, 0 if none.
FindComponent(a, name) ==
    IF \E i \in DOMAIN a.components : a.components[i].name = name
    THEN CHOOSE i \in DOMAIN a.components :
            /\ a.components[i].name = name
            /\ \A j \in DOMAIN a.components : a.components[j].name = name => i <= j
    ELSE 0

\* components.filter(c => c.name === name && c.inferredHOC).map(c => c.inferredHOC)
HOCsOf(a, name) ==
    LET cs == SelectSeq(a.components, LAMBDA c : c.name = name /\ c.inferredHOC # "")
    IN [i \in DOMAIN cs |-> cs[i].inferredHOC]

\* JSON.stringify(xs.sort()) === JSON.stringify(ys.sort()): the two lists
\* hold the same strings the same number of times.
SameWhenSorted(xs, ys) ==
    \A h \in Range(xs) \cup Range(ys) :
        Cardinality({i \in DOMAIN xs : xs[i] = h}) = Cardinality({i \in DOMAIN ys : ys[i] = h})

\* contextAPIs.find(c => c.name === name && c.type === 'Context')?.type
ContextTypeOf(a, name) ==
    IF \E i \in DOMAIN a.contextAPIs :
          a.contextAPIs[i].name = name /\ a.contextAPIs[i].type = "Context"
    THEN "Context" ELSE "undefined"

RoleMismatch(first, cur) == RoleOf(first) # RoleOf(cur)

BothComponentsFound(name, first, cur) ==
    FindComponent(first, name) # 0 /\ FindComponent(cur, name) # 0

\* The mutant of StructuralDifference: the forms are never compared.
StructuralDifferenceUnchecked(name, first, cur) == FALSE

StructuralDifference(name, first, cur) ==
    /\ BothComponentsFound(name, first, cur)
    /\ first.components[FindComponent(first, name)].isFunctional
         # cur.components[FindComponent(cur, name)].isFunctional

ComponentConflicts(name, first, cur) ==
    IF ~BothComponentsFound(name, first, cur) THEN <<>>
    ELSE (IF StructuralDifference(name, first, cur)
          THEN <<Conflict("component-structural-difference", "error", "component", name, first, cur)>>
          ELSE <<>>)
      \o (IF ~compareNameCountProfiles(first.jsxElementsUsed, cur.jsxElementsUsed)
          THEN <<Conflict("component-jsx-profile-mismatch", "warning", "component", name, first, cur)>>
          ELSE <<>>)
      \o (IF ~compareNameCountProfiles(first.reactHooksUsed, cur.reactHooksUsed)
          THEN <<Conflict("component-hook-profile-mismatch", "warning", "component", name, first, cur)>>
          ELSE <<>>)
      \o (IF ~SameWhenSorted(HOCsOf(first, name), HOCsOf(cur, name))
          THEN <<Conflict("component-hoc-mismatch", "warning", "component", name, first, cur)>>
          ELSE <<>>)

HookConflicts(name, first, cur) ==
    IF ~compareNameCountProfiles(first.reactHooksUsed, cur.reactHooksUsed)
    THEN <<Conflict("component-hook-profile-mismatch", "warning", "hook", name, first, cur)>>
    ELSE <<>>

ContextConflicts(name, first, cur) ==
    IF ContextTypeOf(first, name) # ContextTypeOf(cur, name)
    THEN <<Conflict("context-type-mismatch", "warning", "context", name, first, cur)>>
    ELSE <<>>

\* The conflicts one loop iteration (one non-first member) pushes.
MemberConflicts(name, first, cur, entityType) ==
       (IF RoleMismatch(first, cur)
        THEN <<Conflict("role-mismatch", "error", entityType, name, first, cur)>>
        ELSE <<>>)
    \o (IF first.loc # cur.loc
        THEN <<Conflict("utility-loc-difference", "warning", entityType, name, first, cur)>>
        ELSE <<>>)
    \o (CASE entityType = "component" -> ComponentConflicts(name, first, cur)
          [] entityType = "hook"      -> HookConflicts(name, first, cur)
          [] entityType = "context"   -> ContextConflicts(name, first, cur)
          [] OTHER                    -> <<>>)

\* The mutant of MemberBlocks: the role-mismatch branch forgets to clear
\* canBeMerged.
MemberBlocksRoleForgotten(name, first, cur, entityType) ==
    entityType = "component" /\ StructuralDifference(name, first, cur)

\* The loop iterations that execute `canBeMerged = false`.
MemberBlocks(name, first, cur, entityType) ==
    \/ RoleMismatch(first, cur)
    \/ entityType = "component" /\ StructuralDifference(name, first, cur)

\* The mutant of firstAnalysis: member i is compared with the member before it.
firstAnalysisIsPrevious(analyses, i) == analyses[i - 1]

\* const firstAnalysis = analyses[0]: what member i (i > 1) is compared with.
firstAnalysis(analyses, i) == analyses[1]

\* The mutant of detectConflictsForEntity: canBeMerged starts false and is
\* set only by a comparison that passes.
detectConflictsUnsharedBlocked(name, analyses, entityType) ==
    [conflicts |->
        Flatten([i \in 1 .. Len(analyses) - 1 |->
                    MemberConflicts(name, firstAnalysis(analyses, i + 1), analyses[i + 1],
                                    entityType)]),
     canBeMerged |->
        /\ Len(analyses) > 1
        /\ ~\E i \in 2 .. Len(analyses) :
               MemberBlocks(name, firstAnalysis(analyses, i), analyses[i], entityType)]

detectConflictsForEntity(name, analyses, entityType) ==
    [conflicts |->
        Flatten([i \in 1 .. Len(analyses) - 1 |->
                    MemberConflicts(name, firstAnalysis(analyses, i + 1), analyses[i + 1],
                                    entityType)]),
     canBeMerged |->
        ~\E i \in 2 .. Len(analyses) :
               MemberBlocks(name, firstAnalysis(analyses, i), analyses[i], entityType)]

(***************************************************************************)
(* Aggregation and resolution (runResolveAndMergeStep).                    *)
(***************************************************************************)
\* Object.entries(project.analyzedFiles) of every project, in input order.
AllFiles(workspaces) == Flatten([p \in DOMAIN workspaces |-> workspaces[p].analyzedFiles])

ComponentPairs(fa) == [i \in DOMAIN fa.components |-> <<fa.components[i].name, fa>>]

\* Object.keys(fileAnalysis.reactHooksUsed): reactHooksUsed is an array, so
\* its keys are the index strings "0", "1", ...
HookKeys(fa) == [i \in DOMAIN fa.reactHooksUsed |-> ToString(i - 1)]

HookPairs(fa) ==
    LET ks == SelectSeq(HookKeys(fa),
                  LAMBDA k : \E e \in Range(fa.exports) :
                                 e.name = k /\ e.type \in {"function", "variable"})
    IN [i \in DOMAIN ks |-> <<ks[i], fa>>]

ContextPairs(fa) ==
    LET cs == SelectSeq(fa.contextAPIs, LAMBDA c : c.type = "Context")
    IN [i \in DOMAIN cs |-> <<cs[i].name, fa>>]

UtilityPairs(fa) ==
    LET fs == SelectSeq(fa.functions,
                  LAMBDA f : f.isExported /\ ~\E c \in Range(fa.components) : c.name = f.name)
        vs == SelectSeq(fa.declaredVariables,
                  LAMBDA v : /\ v.isExported
                             /\ ~\E c \in Range(fa.components) : c.name = v.name
                             /\ ~\E x \in Range(fa.contextAPIs) : x.name = v.name)
    IN [i \in DOMAIN fs |-> <<fs[i].name, fa>>] \o [i \in DOMAIN vs |-> <<vs[i].name, fa>>]

\* The mutant of PairsOf: one map, keyed by the name alone, for all kinds.
PairsOfAnyKind(fa, entityType) ==
    ComponentPairs(fa) \o HookPairs(fa) \o ContextPairs(fa) \o UtilityPairs(fa)

PairsOf(fa, entityType) ==
    CASE entityType = "component" -> ComponentPairs(fa)
      [] entityType = "hook"      -> HookPairs(fa)
      [] entityType = "context"   -> ContextPairs(fa)
      [] OTHER                    -> UtilityPairs(fa)

\* componentByName, hookByName, contextByName, utilityByName: name -> the
\* analyses that declare it, in member order.
ByName(workspaces, entityType) ==
    LET files == AllFiles(workspaces)
    IN GroupPairs(<<>>, Flatten([i \in DOMAIN files |-> PairsOf(files[i], entityType)]))

\* Sums the counts of each name, names in order of first appearance.
RECURSIVE SumProfile(_, _)
SumProfile(m, items) ==
    IF items = <<>> THEN m
    ELSE LET it == Head(items)
             old == IF MapHas(m, it.name) THEN MapGet(m, it.name) ELSE 0
         IN SumProfile(MapSet(m, it.name, old + it.count), Tail(items))

aggregateNameCountProfiles(profiles) ==
    LET m == SumProfile(<<>>, Flatten(profiles))
    IN [i \in DOMAIN m |-> [name |-> m[i][1], count |-> m[i][2]]]

\* Array.from(new Set(xs)): first occurrences, in order.
Dedup(xs) ==
    LET keep == SelectSeq([i \in DOMAIN xs |-> i],
                    LAMBDA i : \A j \in 1 .. i - 1 : xs[j] # xs[i])
    IN [k \in DOMAIN keep |-> xs[keep[k]]]

\* The merged entity processEntityType builds when canBeMerged holds.  loc
\* is the average sum / length, kept as the exact fraction.
KindFields(base, k, name, analyses, entityType) ==
    CASE entityType = "component" ->
              base @@ [type |-> IF k # 0 /\ analyses[1].components[k].isFunctional
                                THEN "functional" ELSE "class",
                       jsxElementsUsed |-> aggregateNameCountProfiles(
                            [i \in DOMAIN analyses |-> analyses[i].jsxElementsUsed]),
                       reactHooksUsed |-> aggregateNameCountProfiles(
                            [i \in DOMAIN analyses |-> analyses[i].reactHooksUsed]),
                       inferredHOCs |-> Dedup(Flatten(
                            [i \in DOMAIN analyses |-> HOCsOf(analyses[i], name)]))]
         [] entityType = "hook" ->
              base @@ [reactHooksUsed |-> aggregateNameCountProfiles(
                            [i \in DOMAIN analyses |-> analyses[i].reactHooksUsed])]
         [] entityType = "context" -> base @@ [contextType |-> "Context"]
         [] OTHER -> base

BaseFields(unifiedId, name, originalPaths, analyses) ==
    [id |-> unifiedId, name |-> name, originalPaths |-> originalPaths,
     unifiedPath |-> unifiedId, isShared |-> Len(originalPaths) > 1,
     loc |-> [sum |-> SumSeq([i \in DOMAIN analyses |-> analyses[i].loc]),
              count |-> Len(analyses)],
     inferredRole |-> RoleOf(analyses[1])]

MergedEntity(name, analyses, entityType) ==
    KindFields(BaseFields(generateUnifiedPath(name, entityType), name,
                          [i \in DOMAIN analyses |-> analyses[i].file.relativePath],
                          analyses),
               FindComponent(analyses[1], name), name, analyses, entityType)

\* One call of processEntityType: the conflicts it adds to allConflicts and
\* the merged entity it pushes, if any.
EntityResult(d, name, analyses, entityType) ==
    [conflicts |-> d.conflicts,
     canBeMerged |-> d.canBeMerged,
     merged |-> IF d.canBeMerged THEN <<MergedEntity(name, analyses, entityType)>> ELSE <<>>]

processEntityType(name, analyses, entityType) ==
    EntityResult(detectConflictsForEntity(name, analyses, entityType), name, analyses, entityType)

ProcessAll(workspaces, entityType) ==
    LET groups == ByName(workspaces, entityType)
    IN [i \in DOMAIN groups |-> processEntityType(groups[i][1], groups[i][2], entityType)]

\* originalPaths.forEach(op => originalPathToUnifiedId.set(op, unifiedId))
RECURSIVE SetAll(_, _, _)
SetAll(m, keys, v) ==
    IF keys = <<>> THEN m ELSE SetAll(MapSet(m, Head(keys), v), Tail(keys), v)

RECURSIVE InternalMapOf(_, _)
InternalMapOf(m, entities) ==
    IF entities = <<>> THEN m
    ELSE InternalMapOf(SetAll(m, Head(entities).originalPaths, Head(entities).id), Tail(entities))

MergedOf(results) == Flatten([i \in DOMAIN results |-> results[i].merged])
ConflictsOf(results) == Flatten([i \in DOMAIN results |-> results[i].conflicts])

MergeConflictReport(allConflicts) ==
    [hasConflicts |-> Len(allConflicts) > 0,
     criticalErrors |-> SelectSeq(allConflicts, LAMBDA c : c.severity = "error"),
     warnings |-> SelectSeq(allConflicts, LAMBDA c : c.severity = "warning"),
     totalConflicts |-> Len(allConflicts)]

ResolveOutput(comps, hooks, ctxs, utils) ==
    [mergedEntities |-> [components |-> MergedOf(comps), hooks |-> MergedOf(hooks),
                         utilities |-> MergedOf(utils), contexts |-> MergedOf(ctxs)],
     mergeConflicts |-> MergeConflictReport(ConflictsOf(comps) \o ConflictsOf(hooks)
                                                \o ConflictsOf(ctxs) \o ConflictsOf(utils)),
     internalMap |-> InternalMapOf(<<>>,
            MergedOf(comps) \o MergedOf(hooks) \o MergedOf(ctxs) \o MergedOf(utils))]

runResolveAndMergeStep(workspaces) ==
    ResolveOutput(ProcessAll(workspaces, "component"), ProcessAll(workspaces, "hook"),
                  ProcessAll(workspaces, "context"), ProcessAll(workspaces, "utility"))

(***************************************************************************)
(* Normalize step (normalizeStep.ts).  Reading and parsing a scanned file  *)
(* is taken to succeed; the normalized code is identified by the file it   *)
(* was read from.                                                          *)
(***************************************************************************)
\* originalAnalyzedFileMap.set(relPath, astDep) over every workspace: the
\* map is keyed by the relative path alone, a later entry replaces.
RECURSIVE FileMapOf(_, _)
FileMapOf(m, files) ==
    IF files = <<>> THEN m
    ELSE FileMapOf(MapSet(m, Head(files).file.relativePath, Head(files)), Tail(files))

originalAnalyzedFileMap(workspaces) == FileMapOf(<<>>, AllFiles(workspaces))

NormalizedEntity(entity, fileMap) ==
    LET fa == MapGet(fileMap, entity.originalPaths[1])
        base == [id |-> entity.id, name |-> entity.name, unifiedPath |-> entity.unifiedPath,
                 normalizedCode |-> [readFrom |-> fa.file.absolutePath]]
    IN IF "type" \in DOMAIN entity THEN base @@ [type |-> entity.type]
       ELSE IF "reactHooksUsed" \in DOMAIN entity THEN base
       ELSE IF "contextType" \in DOMAIN entity THEN base @@ [contextType |-> entity.contextType]
       ELSE base

processAndNormalizeEntityType(entities, fileMap) ==
    Flatten([i \in DOMAIN entities |->
        IF MapHas(fileMap, entities[i].originalPaths[1])
        THEN <<NormalizedEntity(entities[i], fileMap)>>
        ELSE <<>>])

runNormalizeStep(workspaces, mergedEntities) ==
    LET fileMap == originalAnalyzedFileMap(workspaces)
    IN [components |-> processAndNormalizeEntityType(mergedEntities.components, fileMap),
        hooks |-> processAndNormalizeEntityType(mergedEntities.hooks, fileMap),
        utilities |-> processAndNormalizeEntityType(mergedEntities.utilities, fileMap),
        contexts |-> processAndNormalizeEntityType(mergedEntities.contexts, fileMap)]

(***************************************************************************)
(* Content merge (deepSmartMerge) and merge step (mergeStep.ts).           *)
(***************************************************************************)
HasPaths(e) == "originalPaths" \in DOMAIN e

\* entitiesToMerge.map(e => e.originalPaths[0])
FirstPath(e) == IF e.originalPaths = <<>> THEN "undefined" ELSE e.originalPaths[1]

FirstPaths(entities) == [i \in DOMAIN entities |-> FirstPath(entities[i])]

\* mergeQualityScore after the warnings were folded in.
ScoreAfterWarnings(warnings) ==
    IF 100 - 5 * Len(warnings) < 0 THEN 0 ELSE 100 - 5 * Len(warnings)

\* The incoming entities (index > 0) whose analysis is not found.
MissingIncoming(entities, fileMap) ==
    {i \in 2 .. Len(entities) : ~MapHas(fileMap, FirstPath(entities[i]))}

\* The try block of deepSmartMerge throws: a property of `undefined` is
\* read, or the dominant entity's analysis is not found.
MergeBodyThrows(entities, fileMap) ==
    \/ ~HasPaths(entities[1])
    \/ ~MapHas(fileMap, FirstPath(entities[1]))
    \/ \E i \in 2 .. Len(entities) : ~HasPaths(entities[i])

deepSmartMerge(entityName, entities, fileMap, warnings) ==
    IF entities = <<>> THEN [outcome |-> "null"]
    ELSE IF MergeBodyThrows(entities, fileMap)
    THEN \* the catch block builds the error entity from e.originalPaths[0]
         IF \E i \in DOMAIN entities : ~HasPaths(entities[i])
         THEN [outcome |-> "throw"]
         ELSE [outcome |-> "entity",
               entity |-> [id |-> entities[1].id, name |-> entityName,
                           unifiedPath |-> entities[1].unifiedPath,
                           status |-> "error",
                           originalPaths |-> FirstPaths(entities),
                           mergedFromCount |-> Len(entities),
                           needsManualReview |-> TRUE,
                           mergeStrategyUsed |-> "error",
                           mergeQualityScore |-> 0]]
    ELSE LET score == ScoreAfterWarnings(warnings)
                        - 10 * Cardinality(MissingIncoming(entities, fileMap))
         IN [outcome |-> "entity",
             entity |-> [id |-> entities[1].id, name |-> entityName,
                         unifiedPath |-> entities[1].unifiedPath,
                         mergedAST |-> entities[1].normalizedCode,
                         status |-> IF Len(warnings) > 0 THEN "merged-with-warnings" ELSE "merged",
                         originalPaths |-> FirstPaths(entities),
                         resolvedConflicts |-> warnings,
                         needsManualReview |-> (score < 70 \/ Len(warnings) > 0),
                         mergedFromCount |-> Len(entities),
                         mergeStrategyUsed |-> IF Len(entities) > 1 THEN "auto-combine-distinct"
                                               ELSE "auto-select-dominant",
                         mergeQualityScore |-> score]]

groupNormalizedEntities(ne) ==
    LET all == ne.components \o ne.hooks \o ne.utilities \o ne.contexts
    IN GroupPairs(<<>>, [i \in DOMAIN all |-> <<all[i].id, all[i]>>])

\* conflicts.filter(c => entities[0].originalPaths.some(op => c.relatedFiles.includes(op)))
\* The callback runs once per conflict, so it throws only on a non-empty list.
FilterThrows(conflicts, e) == conflicts # <<>> /\ ~HasPaths(e)

RelatedConflicts(conflicts, e) ==
    SelectSeq(conflicts,
        LAMBDA c : \E op \in Range(e.originalPaths) : op \in Range(c.relatedFiles))

\* entities[0].originalPaths as the property of the entity pushed by the
\* merge step itself: absent when the normalized entity has none.
WithPathsOf(rec, e) == IF HasPaths(e) THEN rec @@ [originalPaths |-> e.originalPaths] ELSE rec

SkippedEntity(unifiedId, entities) ==
    WithPathsOf([id |-> unifiedId, name |-> entities[1].name,
                 unifiedPath |-> entities[1].unifiedPath, status |-> "skipped-conflict",
                 mergedFromCount |-> Len(entities),
                 mergeStrategyUsed |-> "skipped-due-to-critical-conflict",
                 needsManualReview |-> TRUE], entities[1])

ErrorEntity(unifiedId, entities) ==
    WithPathsOf([id |-> unifiedId, name |-> entities[1].name,
                 unifiedPath |-> entities[1].unifiedPath, status |-> "error",
                 mergedFromCount |-> Len(entities), needsManualReview |-> TRUE,
                 mergeStrategyUsed |-> "error", mergeQualityScore |-> 0], entities[1])

\* One iteration of the merge loop: the final entity it pushes, the call of
\* deepSmartMerge it makes (if any), or the TypeError that leaves the step.
MergeGroup(unifiedId, entities, fileMap, mergeConflicts) ==
    IF \/ FilterThrows(mergeConflicts.criticalErrors, entities[1])
       \/ FilterThrows(mergeConflicts.warnings, entities[1])
    THEN [threw |-> TRUE, final |-> <<>>, calls |-> <<>>]
    ELSE LET critical == IF mergeConflicts.criticalErrors = <<>> THEN <<>>
                         ELSE RelatedConflicts(mergeConflicts.criticalErrors, entities[1])
             warnings == IF mergeConflicts.warnings = <<>> THEN <<>>
                         ELSE RelatedConflicts(mergeConflicts.warnings, entities[1])
             call == [entityName |-> entities[1].name, entitiesToMerge |-> entities,
                      warnings |-> warnings]
             r == deepSmartMerge(entities[1].name, entities, fileMap, warnings)
         IN IF critical # <<>>
            THEN [threw |-> FALSE, final |-> <<SkippedEntity(unifiedId, entities)>>, calls |-> <<>>]
            ELSE [threw |-> FALSE,
                  final |-> IF r.outcome = "entity" THEN <<r.entity>>
                            ELSE <<ErrorEntity(unifiedId, entities)>>,
                  calls |-> <<call>>]

RECURSIVE MergeLoop(_, _, _, _)
MergeLoop(acc, groups, fileMap, mergeConflicts) ==
    IF groups = <<>> THEN acc
    ELSE LET g == MergeGroup(Head(groups)[1], Head(groups)[2], fileMap, mergeConflicts)
             next == [threw |-> g.threw,
                      finalMergedEntities |-> acc.finalMergedEntities \o g.final,
                      calls |-> acc.calls \o g.calls]
         IN IF g.threw THEN next ELSE MergeLoop(next, Tail(groups), fileMap, mergeConflicts)

CountStatus(finals, statuses) ==
    Cardinality({i \in DOMAIN finals : finals[i].status \in statuses})

runMergeStep(normalizedEntities, workspaces, mergeConflicts) ==
    LET groups == groupNormalizedEntities(normalizedEntities)
        r == MergeLoop([threw |-> FALSE, finalMergedEntities |-> <<>>, calls |-> <<>>],
                       groups, originalAnalyzedFileMap(workspaces), mergeConflicts)
    IN [threw |-> r.threw,
        finalMergedEntities |-> r.finalMergedEntities,
        calls |-> r.calls,
        mergeSummary |->
            [totalEntitiesAttemptedToMerge |-> Len(groups),
             totalMergedSuccessfully |->
                CountStatus(r.finalMergedEntities, {"merged", "merged-with-warnings"}),
             totalSkippedDueToConflicts |-> CountStatus(r.finalMergedEntities, {"skipped-conflict"}),
             totalFailedDuringMergeProcess |-> CountStatus(r.finalMergedEntities, {"error"})]]

(***************************************************************************)
(* Render step (renderStep.ts).                                            *)
(***************************************************************************)
\* The placeholder of a skipped or failed entity joins entity.originalPaths.
RenderThrows(finals) ==
    \E i \in DOMAIN finals :
        finals[i].status \in {"skipped-conflict", "error"} /\ ~HasPaths(finals[i])

RenderedFile(entity) ==
    IF entity.status \in {"skipped-conflict", "error"}
    THEN [kind |-> "placeholder", status |-> entity.status]
    ELSE [kind |-> "code", from |-> entity.mergedAST]

RECURSIVE RenderAll(_, _)
RenderAll(out, finals) ==
    IF finals = <<>> THEN out
    ELSE RenderAll(MapSet(out, Head(finals).unifiedPath, RenderedFile(Head(finals))), Tail(finals))

runRenderStep(finals) ==
    IF RenderThrows(finals) THEN [threw |-> TRUE, outputFiles |-> <<>>]
    ELSE [threw |-> FALSE, outputFiles |-> RenderAll(<<>>, finals)]

(***************************************************************************)
(* Dependency graph (dependencyGraphBuilder.ts).  A path is the sequence   *)
(* of its directory and file names, each extension a token of its own:     *)
(* "widgets/Card.tsx" is <<"widgets", "Card", ".tsx">>.  An import source  *)
(* starts with ".", "..", "/", "@/" or a package name.                     *)
(***************************************************************************)
COMMON_FILE_EXTENSIONS ==
    <<".ts", ".tsx", ".js", ".jsx", ".json", ".css", ".scss", ".less", ".png", ".svg">>

IsExtension(tok) == tok \in Range(COMMON_FILE_EXTENSIONS)

\* basePath.endsWith(ext)
endsWith(p, ext) == p # <<>> /\ p[Len(p)] = ext

RECURSIVE StripExtensions(_)
StripExtensions(p) ==
    IF p # <<>> /\ IsExtension(p[Len(p)]) THEN StripExtensions(SubSeq(p, 1, Len(p) - 1)) ELSE p

\* path.dirname(fromFilePath), "." being the empty sequence.
dirname(p) ==
    IF StripExtensions(p) = <<>> THEN <<>>
    ELSE SubSeq(StripExtensions(p), 1, Len(StripExtensions(p)) - 1)

\* path.relative(root, path.resolve(root, fromDir, importSource)): "." is
\* dropped, ".." removes the last name or, above the root, is kept.
RECURSIVE ResolveSegments(_, _)
ResolveSegments(stack, toks) ==
    IF toks = <<>> THEN stack
    ELSE IF Head(toks) = "." THEN ResolveSegments(stack, Tail(toks))
    ELSE IF Head(toks) = ".."
         THEN IF stack = <<>> \/ stack[Len(stack)] = ".."
              THEN ResolveSegments(Append(stack, ".."), Tail(toks))
              ELSE ResolveSegments(dirname(stack), Tail(toks))
    ELSE ResolveSegments(Append(stack, Head(toks)), Tail(toks))

startsWithDot(importSource) == importSource # <<>> /\ Head(importSource) \in {".", ".."}
startsWithSlash(importSource) == importSource # <<>> /\ Head(importSource) = "/"
startsWithAt(importSource) ==
    importSource # <<>> /\ Head(importSource) \in {"@/", "@scope"}

\* The mutant of IsBareSpecifier: no specifier is taken for a package.
IsBareSpecifierNever(importSource) == FALSE

\* External package or built-in module: not resolvable within the project.
IsBareSpecifier(importSource) ==
    ~startsWithDot(importSource) /\ ~startsWithSlash(importSource) /\ ~startsWithAt(importSource)

possiblePathsToTry(fromFilePath, importSource) ==
    IF startsWithDot(importSource)
    THEN <<ResolveSegments(dirname(fromFilePath), importSource)>>
    ELSE IF startsWithSlash(importSource) \/ Head(importSource) = "@/"
    THEN <<Tail(importSource), <<"src">> \o Tail(importSource)>>
    ELSE <<importSource, <<"src">> \o importSource>>

\* The candidates tried for one base path, in order: the exact path, then
\* for each extension the path with it and the index file with it.
CandidatesOf(basePath) ==
    <<basePath>> \o
    Flatten([e \in DOMAIN COMMON_FILE_EXTENSIONS |->
        <<IF endsWith(basePath, COMMON_FILE_EXTENSIONS[e]) THEN basePath
          ELSE Append(basePath, COMMON_FILE_EXTENSIONS[e]),
          basePath \o <<"index", COMMON_FILE_EXTENSIONS[e]>>>>])

\* The first candidate that is a key of analyzedFiles: <<path>>, or <<>>
\* for null.
FirstAnalyzed(candidates, analyzedFiles) ==
    IF \E i \in DOMAIN candidates : MapHas(analyzedFiles, candidates[i])
    THEN <<candidates[CHOOSE i \in DOMAIN candidates :
                /\ MapHas(analyzedFiles, candidates[i])
                /\ \A j \in 1 .. i - 1 : ~MapHas(analyzedFiles, candidates[j])]>>
    ELSE <<>>

resolveImportPath(fromFilePath, importSource, analyzedFiles) ==
    IF IsBareSpecifier(importSource) THEN <<>>
    ELSE FirstAnalyzed(
            Flatten([b \in DOMAIN possiblePathsToTry(fromFilePath, importSource) |->
                CandidatesOf(possiblePathsToTry(fromFilePath, importSource)[b])]),
            analyzedFiles)

Extension(p) == IF p # <<>> /\ IsExtension(p[Len(p)]) THEN p[Len(p)] ELSE ""

\* file.inferredFrameworkSpecific?.includes('page'); a file record without
\* the field has it undefined.
IsFrameworkPage(file) ==
    "inferredFrameworkSpecific" \in DOMAIN file /\ file.inferredFrameworkSpecific = "nextjs-page"

\* includes('routes/') and includes('layouts/') are read as a directory of
\* that name on the path.
inferFileType(fa) ==
    IF fa.file.inferredRole = "page" \/ IsFrameworkPage(fa.file) THEN "page"
    ELSE IF fa.components # <<>> THEN "component"
    ELSE IF fa.reactHooksUsed # <<>> THEN "hook"
    ELSE IF fa.contextAPIs # <<>> THEN "utility"
    ELSE IF fa.file.inferredRole = "util" THEN "utility"
    ELSE IF fa.file.inferredRole \in {"api", "config", "asset", "style"} THEN fa.file.inferredRole
    ELSE IF "routes" \in Range(dirname(fa.file.relativePath)) THEN "page"
    ELSE IF "layouts" \in Range(dirname(fa.file.relativePath)) THEN "component"
    ELSE IF Extension(fa.file.relativePath) = ".json" THEN "config"
    ELSE IF Extension(fa.file.relativePath) \in {".css", ".scss", ".less"} THEN "style"
    ELSE IF Extension(fa.file.relativePath) \in {".ts", ".js", ".tsx", ".jsx"} THEN "utility"
    ELSE "unknown"

FileNode(relativePath, fa) ==
    [id |-> relativePath,
     type |-> inferFileType(fa),
     hasJSX |-> fa.components # <<>> \/ fa.jsxElementsUsed # <<>>,
     exportsCount |-> Len(fa.exports),
     importsCount |-> Len(fa.imports),
     componentsDeclared |-> Len(fa.components)]

\* componentExportsMap and typeExportsMap: name -> relative path of the
\* file that set it last.
RECURSIVE ExportsMapOf(_, _)
ExportsMapOf(m, pairs) ==
    IF pairs = <<>> THEN m
    ELSE ExportsMapOf(MapSet(m, Head(pairs)[1], Head(pairs)[2]), Tail(pairs))

ExportedNames(items, relativePath) ==
    [i \in DOMAIN SelectSeq(items, LAMBDA c : c.isExported) |->
        <<SelectSeq(items, LAMBDA c : c.isExported)[i].name, relativePath>>]

componentExportsMap(analyzedFiles) ==
    ExportsMapOf(<<>>, Flatten([f \in DOMAIN analyzedFiles |->
        ExportedNames(analyzedFiles[f][2].components, analyzedFiles[f][1])]))

typeExportsMap(analyzedFiles) ==
    ExportsMapOf(<<>>, Flatten([f \in DOMAIN analyzedFiles |->
        ExportedNames(analyzedFiles[f][2].declaredTypes, analyzedFiles[f][1])]))

\* Object.values(analyzedFiles).find(pred): <<relativePath>> of the first
\* file that declares the context, or <<>>.
contextDefinitionFile(analyzedFiles, contextName) ==
    LET hit == SelectSeq(analyzedFiles,
                   LAMBDA kv : \E api \in Range(kv[2].contextAPIs) :
                                   api.name = contextName /\ api.type = "Context")
    IN IF hit = <<>> THEN <<>> ELSE <<hit[1][2].file.relativePath>>

hocDefinitionFile(analyzedFiles, hoc) ==
    LET hit == SelectSeq(analyzedFiles,
                   LAMBDA kv : \E exp \in Range(kv[2].exports) :
                                   exp.name = hoc /\ exp.type \in {"function", "variable"})
    IN IF hit = <<>> THEN <<>> ELSE <<hit[1][2].file.relativePath>>

(***************************************************************************)
(* buildDependencyGraph, one reference at a time.  `analysis` is the       *)
(* project being graphed, `cursor` the position of the edge loop (file,    *)
(* inner loop, item), `graph` the returned value.                          *)
(***************************************************************************)
\* The five inner loops of the edge loop, in order, and the list each one
\* iterates over.
KindOrder == <<"import", "render-usage", "context-usage", "hoc-usage", "type-dependency">>

ReferencesAt(a, f, k) ==
    CASE k = 1 -> a.analyzedFiles[f][2].imports
      [] k = 2 -> a.analyzedFiles[f][2].jsxElementsUsed
      [] k = 3 -> a.analyzedFiles[f][2].contextAPIs
      [] k = 4 -> a.analyzedFiles[f][2].components
      [] OTHER -> a.analyzedFiles[f][2].typesUsedInAnnotations

\* The position of the next reference at or after item i of loop k of file
\* f; past the last file when there is none.
RECURSIVE Seek(_, _, _, _)
Seek(a, f, k, i) ==
    IF f > Len(a.analyzedFiles) THEN [file |-> Len(a.analyzedFiles) + 1, kind |-> 1, index |-> 1]
    ELSE IF k > Len(KindOrder) THEN Seek(a, f + 1, 1, 1)
    ELSE IF i > Len(ReferencesAt(a, f, k)) THEN Seek(a, f, k + 1, 1)
    ELSE [file |-> f, kind |-> k, index |-> i]

BeforeNodes == [file |-> 0, kind |-> 0, index |-> 0]

\* The mutant of IsOtherFile: the comparison of source and target is dropped.
IsOtherFileUnchecked(sourcePath, target) == TRUE

\* sourcePath !== target
IsOtherFile(sourcePath, target) == sourcePath # target

\* The mutant of IsNewEdge: processedEdges is never consulted.
IsNewEdgeUnchecked(processed, edgeId) == TRUE

\* !processedEdges.has(edgeId)
IsNewEdge(processed, edgeId) == edgeId \notin processed

EdgeId(from, to, type) == <<from, to, type>>

\* edges.find(e => e.from === from && e.to === to && e.type === type)
FindEdge(es, from, to, type) ==
    IF \E i \in DOMAIN es : es[i].from = from /\ es[i].to = to /\ es[i].type = type
    THEN CHOOSE i \in DOMAIN es :
            /\ es[i].from = from /\ es[i].to = to /\ es[i].type = type
            /\ \A j \in 1 .. i - 1 : ~(es[j].from = from /\ es[j].to = to /\ es[j].type = type)
    ELSE 0

\* existingEdge.importedNames.push(name) unless it is included already.
PushName(es, k, name) ==
    IF k = 0 \/ name = "" \/ name \in Range(es[k].importedNames) THEN es
    ELSE [es EXCEPT ![k].importedNames = Append(@, name)]

\* The mutant of RenderWeight: every usage counts once.
RenderWeightOne(usedComponent) == 1

\* weight: usedComponent.count
RenderWeight(usedComponent) == usedComponent.count

\* The specifier as the text sourcePath is compared with: "@/y.ts" is the
\* text of the relative path of y.ts in a directory named "@".
SpecifierText(importSource) ==
    IF importSource # <<>> /\ Head(importSource) = "@/" THEN <<"@">> \o Tail(importSource)
    ELSE importSource

\* imp.path.includes('import(')
EdgeTypeOfImport(imp) ==
    IF \E i \in DOMAIN imp.path : imp.path[i] = "import(" THEN "dynamic-import" ELSE "import"

\* The name an import contributes to an existing edge: importedAs if it is
\* set and not listed yet, otherwise the imported name.
NameToPush(es, k, imp) ==
    IF imp.importedAs # "" /\ (k = 0 \/ imp.importedAs \notin Range(es[k].importedNames))
    THEN imp.importedAs
    ELSE imp.name

GraphInit ==
    /\ cursor = BeforeNodes
    /\ nodes = <<>>
    /\ edges = <<>>
    /\ processedEdges = {}
    /\ unresolvedImports = <<>>
    /\ graph = [returned |-> FALSE]

\* Step 1: the nodes.
ExtractNodes ==
    /\ cursor = BeforeNodes
    /\ nodes' = [f \in DOMAIN analysis.analyzedFiles |->
                    FileNode(analysis.analyzedFiles[f][1], analysis.analyzedFiles[f][2])]
    /\ cursor' = Seek(analysis, 1, 1, 1)
    /\ UNCHANGED <<analysis, edges, processedEdges, unresolvedImports, graph>>
    /\ UNCHANGED <<pvars, rvars>>

\* The edge loop is at a reference of the given kind.
AtReference(kind) ==
    /\ cursor.file \in DOMAIN analysis.analyzedFiles
    /\ KindOrder[cursor.kind] = kind

\* The reference the edge loop handles next, and the file it is in.
Current ==
    [from |-> analysis.analyzedFiles[cursor.file][1],
     ref |-> ReferencesAt(analysis, cursor.file, cursor.kind)[cursor.index]]

Advance == cursor' = Seek(analysis, cursor.file, cursor.kind, cursor.index + 1)

\* The edge is created, or the existing one is found again.
Discover(from, to, type, newEdge, rediscovered) ==
    IF IsNewEdge(processedEdges, EdgeId(from, to, type))
    THEN /\ edges' = Append(edges, newEdge)
         /\ processedEdges' = processedEdges \cup {EdgeId(from, to, type)}
    ELSE /\ edges' = rediscovered
         /\ UNCHANGED processedEdges

\* 2.1 import edges.
ImportEdge ==
    /\ AtReference("import")
    /\ Advance
    /\ LET imp == Current.ref
           target == resolveImportPath(Current.from, imp.path, analysis.analyzedFiles)
           type == EdgeTypeOfImport(imp)
       IN IF target # <<>> /\ IsOtherFile(Current.from, target[1])
          THEN /\ Discover(Current.from, target[1], type,
                     [from |-> Current.from, to |-> target[1], type |-> type,
                      importedNames |-> <<IF imp.importedAs # "" THEN imp.importedAs ELSE imp.name>>],
                     PushName(edges, FindEdge(edges, Current.from, target[1], type),
                              NameToPush(edges, FindEdge(edges, Current.from, target[1], type), imp)))
               /\ UNCHANGED unresolvedImports
          ELSE /\ unresolvedImports' =
                     IF target = <<>> /\ ~IsBareSpecifier(imp.path)
                                      /\ Current.from # SpecifierText(imp.path)
                     THEN Append(unresolvedImports, [from |-> Current.from, importPath |-> imp.path])
                     ELSE unresolvedImports
               /\ UNCHANGED <<edges, processedEdges>>
    /\ UNCHANGED <<analysis, nodes, graph>>
    /\ UNCHANGED <<pvars, rvars>>

\* 2.2 render-usage edges.
RenderUsageEdge ==
    /\ AtReference("render-usage")
    /\ Advance
    /\ LET used == Current.ref
           m == componentExportsMap(analysis.analyzedFiles)
       IN IF MapHas(m, used.name) /\ IsOtherFile(Current.from, MapGet(m, used.name))
          THEN Discover(Current.from, MapGet(m, used.name), "render-usage",
                   [from |-> Current.from, to |-> MapGet(m, used.name), type |-> "render-usage",
                    importedNames |-> <<used.name>>, weight |-> RenderWeight(used)],
                   PushName(edges, FindEdge(edges, Current.from, MapGet(m, used.name), "render-usage"),
                            used.name))
          ELSE UNCHANGED <<edges, processedEdges>>
    /\ UNCHANGED <<analysis, nodes, unresolvedImports, graph>>
    /\ UNCHANGED <<pvars, rvars>>

\* 2.3 context-usage edges: an existing edge is left as it is.
ContextUsageEdge ==
    /\ AtReference("context-usage")
    /\ Advance
    /\ LET api == Current.ref
           def == contextDefinitionFile(analysis.analyzedFiles, api.name)
       IN IF api.type \in {"Provider", "Consumer"} /\ def # <<>> /\ IsOtherFile(Current.from, def[1])
          THEN Discover(Current.from, def[1], "context-usage",
                   [from |-> Current.from, to |-> def[1], type |-> "context-usage",
                    importedNames |-> <<api.name>>],
                   edges)
          ELSE UNCHANGED <<edges, processedEdges>>
    /\ UNCHANGED <<analysis, nodes, unresolvedImports, graph>>
    /\ UNCHANGED <<pvars, rvars>>

\* 2.4 hoc-usage edges: an existing edge is left as it is.
HocUsageEdge ==
    /\ AtReference("hoc-usage")
    /\ Advance
    /\ LET comp == Current.ref
           def == hocDefinitionFile(analysis.analyzedFiles, comp.inferredHOC)
       IN IF comp.inferredHOC # "" /\ def # <<>> /\ IsOtherFile(Current.from, def[1])
          THEN Discover(Current.from, def[1], "hoc-usage",
                   [from |-> Current.from, to |-> def[1], type |-> "hoc-usage",
                    importedNames |-> <<comp.inferredHOC>>],
                   edges)
          ELSE UNCHANGED <<edges, processedEdges>>
    /\ UNCHANGED <<analysis, nodes, unresolvedImports, graph>>
    /\ UNCHANGED <<pvars, rvars>>

\* 2.5 type-dependency edges.
TypeDependencyEdge ==
    /\ AtReference("type-dependency")
    /\ Advance
    /\ LET typeUsed == Current.ref
           m == typeExportsMap(analysis.analyzedFiles)
       IN IF MapHas(m, typeUsed.name) /\ IsOtherFile(Current.from, MapGet(m, typeUsed.name))
          THEN Discover(Current.from, MapGet(m, typeUsed.name), "type-dependency",
                   [from |-> Current.from, to |-> MapGet(m, typeUsed.name),
                    type |-> "type-dependency",
                    importedNames |-> <<typeUsed.name>>, weight |-> typeUsed.count],
                   PushName(edges, FindEdge(edges, Current.from, MapGet(m, typeUsed.name),
                                            "type-dependency"),
                            typeUsed.name))
          ELSE UNCHANGED <<edges, processedEdges>>
    /\ UNCHANGED <<analysis, nodes, unresolvedImports, graph>>
    /\ UNCHANGED <<pvars, rvars>>

ReturnGraph ==
    /\ cursor.file = Len(analysis.analyzedFiles) + 1
    /\ ~graph.returned
    /\ graph' = [returned |-> TRUE, nodes |-> nodes, edges |-> edges,
                 totalNodes |-> Len(nodes), totalEdges |-> Len(edges),
                 unresolvedImports |-> unresolvedImports]
    /\ UNCHANGED <<analysis, nodes, edges, processedEdges, unresolvedImports, cursor>>
    /\ UNCHANGED <<pvars, rvars>>

(***************************************************************************)
(* The orchestrator (orchestrator.ts): one run of runFusionOrchestrator.   *)
(* `context` is the FusionContext object: a step that completes adds its   *)
(* properties.  `step` is the position of the run, `result` what the call  *)
(* returned, `mergeCalls` the calls of deepSmartMerge made so far.         *)
(***************************************************************************)
\* What the scan can find on disk: up to MaxProjects projects, each empty
\* or holding one analyzed file.
RelPaths == {"a.tsx", "b.tsx"}
Roles == {"component", "util"}
Locs == {10, 40}
FileContents ==
    {[components |-> <<>>, functions |-> <<ExportedFunction("formatDate")>>],
     [components |-> <<Component("Button", TRUE, "")>>,
      functions |-> <<ExportedFunction("formatDate")>>],
     [components |-> <<Component("Button", FALSE, "")>>,
      functions |-> <<ExportedFunction("formatDate")>>]}

ProjectsAt(p) ==
    {[analyzedFiles |-> <<>>]} \cup
    {[analyzedFiles |-> <<Analysis(p, rp, role, loc, c.components, c.functions)>>] :
        rp \in RelPaths, role \in Roles, loc \in Locs, c \in FileContents}

RECURSIVE WorkspacesOf(_)
WorkspacesOf(n) ==
    IF n = 0 THEN {<<>>}
    ELSE {Append(ws, p) : ws \in WorkspacesOf(n - 1), p \in ProjectsAt(n)}

WorkspaceInputs == UNION {WorkspacesOf(n) : n \in 0 .. MaxProjects}

\* No call has been repeated yet.
NoRun == [ran |-> FALSE]

OrchestratorInit ==
    /\ step = "validation"
    /\ context = [currentStepStatus |-> "running", overallSuccess |-> FALSE]
    /\ result = [returned |-> FALSE]
    /\ mergeCalls = <<>>
    /\ firstRun = NoRun

\* A run of the orchestrator; no graph is being built.
Init ==
    /\ OrchestratorInit
    /\ analysis = [analyzedFiles |-> <<>>]
    /\ GraphInit

\* The mutant of Fail: the catch block leaves currentStepStatus as it was.
FailStatusKept(ctx, message) ==
    /\ step' = "done"
    /\ context' = [f \in DOMAIN ctx \cup {"overallErrorMessage"} |->
                     IF f = "overallSuccess" THEN FALSE
                     ELSE IF f = "overallErrorMessage" THEN message
                     ELSE ctx[f]]
    /\ result' = [returned |-> TRUE, success |-> FALSE, error |-> message]

\* The catch block of runFusionOrchestrator.
Fail(ctx, message) ==
    /\ step' = "done"
    /\ context' = [f \in DOMAIN ctx \cup {"overallErrorMessage"} |->
                     IF f = "currentStepStatus" THEN "failed"
                     ELSE IF f = "overallSuccess" THEN FALSE
                     ELSE IF f = "overallErrorMessage" THEN message
                     ELSE ctx[f]]
    /\ result' = [returned |-> TRUE, success |-> FALSE, error |-> message]

Validation ==
    /\ step = "validation"
    /\ \E overallStatus \in {"passed", "warnings", "failed"} :
         LET ctx == context @@ [validationReport |-> [overallStatus |-> overallStatus]]
         IN IF overallStatus = "failed"
            THEN Fail(ctx, "Initial validation failed")
            ELSE step' = "scan" /\ context' = ctx /\ UNCHANGED result
    /\ UNCHANGED mergeCalls
    /\ UNCHANGED <<gvars, rvars>>

Scan ==
    /\ step = "scan"
    /\ \/ \E ws \in WorkspaceInputs :
            /\ step' = "resolve"
            /\ context' = context @@ [analyzedWorkspaces |-> ws]
            /\ UNCHANGED result
       \/ Fail(context, "No valid project paths found to scan")
    /\ UNCHANGED mergeCalls
    /\ UNCHANGED <<gvars, rvars>>

Resolved(r) ==
    IF r.mergeConflicts.criticalErrors # <<>>
    THEN Fail(context @@ [mergedEntities |-> r.mergedEntities,
                          resolveMergeConflicts |-> r.mergeConflicts,
                          internalMap |-> r.internalMap],
              "Critical conflicts detected during Resolve & Merge step. Aborting.")
    ELSE /\ step' = "normalize"
         /\ context' = context @@ [mergedEntities |-> r.mergedEntities,
                                   resolveMergeConflicts |-> r.mergeConflicts,
                                   internalMap |-> r.internalMap]
         /\ UNCHANGED result

ResolveAndMerge ==
    /\ step = "resolve"
    /\ IF context.analyzedWorkspaces = <<>>
       THEN Fail(context, "No workspaces to resolve. Scan step might have failed.")
       ELSE Resolved(runResolveAndMergeStep(context.analyzedWorkspaces))
    /\ UNCHANGED mergeCalls
    /\ UNCHANGED <<gvars, rvars>>

Normalize ==
    /\ step = "normalize"
    /\ step' = "merge"
    /\ context' = context @@
         [normalizedEntities |-> runNormalizeStep(context.analyzedWorkspaces, context.mergedEntities)]
    /\ UNCHANGED <<result, mergeCalls>>
    /\ UNCHANGED <<gvars, rvars>>

Merge ==
    /\ step = "merge"
    /\ LET r == runMergeStep(context.normalizedEntities, context.analyzedWorkspaces,
                             context.resolveMergeConflicts)
       IN /\ mergeCalls' = r.calls
          /\ IF r.threw
             THEN Fail(context, "Cannot read properties of undefined (reading 'some')")
             ELSE /\ step' = "render"
                  /\ context' = context @@ [finalMergedEntities |-> r.finalMergedEntities,
                                            finalMergeSummary |-> r.mergeSummary]
                  /\ UNCHANGED result
    /\ UNCHANGED <<gvars, rvars>>

Render ==
    /\ step = "render"
    /\ LET r == runRenderStep(context.finalMergedEntities)
       IN IF r.threw
          THEN Fail(context, "Cannot read properties of undefined (reading 'join')")
          ELSE /\ step' = "finish"
               /\ context' = context @@ [outputFiles |-> r.outputFiles]
               /\ UNCHANGED result
    /\ UNCHANGED mergeCalls
    /\ UNCHANGED <<gvars, rvars>>

\* Final validations and the successful return.
Finish ==
    /\ step = "finish"
    /\ step' = "done"
    /\ context' = [context EXCEPT !.currentStepStatus = "completed", !.overallSuccess = TRUE]
    /\ result' = [returned |-> TRUE, success |-> TRUE, codeOutput |-> context.outputFiles]
    /\ UNCHANGED mergeCalls
    /\ UNCHANGED <<gvars, rvars>>

Next == Validation \/ Scan \/ ResolveAndMerge \/ Normalize \/ Merge \/ Render \/ Finish

Spec == Init /\ [][Next]_vars

(***************************************************************************)
(* A call of buildDependencyGraph on one analyzed project of up to         *)
(* MaxFiles files.  The i-th file of the project has the i-th path of      *)
(* FilePaths; what it declares and what it refers to are chosen            *)
(* independently.                                                          *)
(***************************************************************************)
FilePaths ==
    <<<<"a", ".tsx">>, <<"widgets", "Card", ".tsx">>, <<"widgets", "index", ".ts">>,
      <<"src", "b", ".tsx">>>>

Import(name, importedAs, path) == [name |-> name, importedAs |-> importedAs, path |-> path]

Usage(name, count) == [name |-> name, count |-> count]

Provides ==
    {[components |-> <<>>, contextAPIs |-> <<>>, functions |-> <<ExportedFunction("formatDate")>>,
      declaredTypes |-> <<>>],
     [components |-> <<Component("Card", TRUE, "")>>,
      contextAPIs |-> <<[name |-> "Theme", type |-> "Context"]>>,
      functions |-> <<ExportedFunction("withTheme")>>,
      declaredTypes |-> <<[name |-> "Props", isExported |-> TRUE]>>],
     [components |-> <<Component("Card", TRUE, ""), Component("CardHeader", TRUE, "")>>,
      contextAPIs |-> <<[name |-> "Theme", type |-> "Context"],
                        [name |-> "Auth", type |-> "Context"]>>,
      functions |-> <<ExportedFunction("withTheme"), ExportedFunction("withRouter")>>,
      declaredTypes |-> <<[name |-> "Props", isExported |-> TRUE],
                          [name |-> "State", isExported |-> TRUE]>>]}

\* What a file refers to: nothing; one reference of each kind; two of each
\* kind, to the same targets; or imports of a package, of a sibling and of
\* the parent directory.
References0 ==
    [imports |-> <<>>, components |-> <<>>, contextAPIs |-> <<>>, jsxElementsUsed |-> <<>>,
     typesUsedInAnnotations |-> <<>>]

Refers ==
    {References0,
     [imports |-> <<Import("Card", "Card", <<".", "widgets", "Card">>)>>,
      components |-> <<[name |-> "Page", isExported |-> FALSE, isFunctional |-> TRUE,
                        inferredHOC |-> "withTheme"]>>,
      contextAPIs |-> <<[name |-> "Theme", type |-> "Provider"]>>,
      jsxElementsUsed |-> <<Usage("Card", 2)>>,
      typesUsedInAnnotations |-> <<Usage("Props", 2)>>],
     [imports |-> <<Import("Card", "Card", <<".", "widgets", "Card">>),
                    Import("CardHeader", "Header", <<".", "widgets", "Card">>)>>,
      components |-> <<[name |-> "Page", isExported |-> FALSE, isFunctional |-> TRUE,
                        inferredHOC |-> "withTheme"],
                       [name |-> "Panel", isExported |-> FALSE, isFunctional |-> TRUE,
                        inferredHOC |-> "withRouter"]>>,
      contextAPIs |-> <<[name |-> "Theme", type |-> "Provider"],
                        [name |-> "Auth", type |-> "Consumer"]>>,
      jsxElementsUsed |-> <<Usage("Card", 2), Usage("CardHeader", 1)>>,
      typesUsedInAnnotations |-> <<Usage("Props", 2), Usage("State", 1)>>],
     [References0 EXCEPT !.imports =
        <<Import("default", "React", <<"react">>),
          Import("Card", "Card", <<".", "Card">>),
          Import("default", "App", <<"..", "a">>)>>]}

GraphFile(relativePath, provides, uses) ==
    [file |-> [relativePath |-> relativePath, inferredRole |-> NoRole],
     imports |-> uses.imports,
     exports |-> [i \in DOMAIN provides.components |->
                     [name |-> provides.components[i].name, type |-> "component"]]
                 \o [i \in DOMAIN provides.functions |->
                     [name |-> provides.functions[i].name, type |-> "function"]],
     functions |-> provides.functions,
     components |-> provides.components \o uses.components,
     contextAPIs |-> provides.contextAPIs \o uses.contextAPIs,
     jsxElementsUsed |-> uses.jsxElementsUsed,
     reactHooksUsed |-> <<>>,
     declaredTypes |-> provides.declaredTypes,
     typesUsedInAnnotations |-> uses.typesUsedInAnnotations]

GraphFilesAt(i) ==
    {<<FilePaths[i], GraphFile(FilePaths[i], pr, us)>> : pr \in Provides, us \in Refers}

RECURSIVE AnalyzedFilesOf(_)
AnalyzedFilesOf(n) ==
    IF n = 0 THEN {<<>>}
    ELSE {Append(fs, f) : fs \in AnalyzedFilesOf(n - 1), f \in GraphFilesAt(n)}

GraphInputs ==
    {[analyzedFiles |-> fs] : fs \in UNION {AnalyzedFilesOf(n) : n \in 1 .. MaxFiles}}

InitGraph ==
    /\ OrchestratorInit
    /\ analysis \in GraphInputs
    /\ GraphInit

NextGraph ==
    \/ ExtractNodes
    \/ ImportEdge
    \/ RenderUsageEdge
    \/ ContextUsageEdge
    \/ HocUsageEdge
    \/ TypeDependencyEdge
    \/ ReturnGraph

SpecGraph == InitGraph /\ [][NextGraph]_vars

(***************************************************************************)
(* Projects as the scanner finds them: the role of a file follows from its *)
(* path.  One file imports; the others are files an import can resolve to. *)
(***************************************************************************)
\* inferFileRole, with includes() read as a directory, or for 'hook' and
\* 'util' any name, of that spelling on the path.
inferFileRole(p) ==
    IF "hooks" \in Range(p) THEN "hook"
    ELSE IF "utils" \in Range(p) THEN "util"
    ELSE IF Range(dirname(p)) \cap {"pages", "app", "routes"} # {} THEN "page"
    ELSE IF "components" \in Range(dirname(p)) THEN "component"
    ELSE IF "api" \in Range(dirname(p)) THEN "api"
    ELSE IF Range(dirname(p)) \cap {"config", "configs"} # {} THEN "config"
    ELSE IF Extension(p) \in {".css", ".scss", ".less"} THEN "style"
    ELSE IF Extension(p) \in {".png", ".svg"} THEN "asset"
    ELSE "other"

inferFrameworkSpecificRole(p) ==
    IF Len(p) > 1 /\ Head(p) = "pages" /\ Extension(p) # "" THEN "nextjs-page"
    ELSE IF Len(p) > 2 /\ p[1] = "app" /\ p[2] = "routes" /\ Extension(p) # "" THEN "remix-route"
    ELSE IF p \in {<<"src", "index", ".tsx">>, <<"src", "index", ".jsx">>,
                   <<"src", "main", ".tsx">>, <<"src", "main", ".jsx">>} THEN "cra-entry"
    ELSE "null"

ScannedFile(p) ==
    [relativePath |-> p, inferredRole |-> inferFileRole(p),
     inferredFrameworkSpecific |-> inferFrameworkSpecificRole(p)]

MaxTargets == 2

ImporterPaths == {<<"a", ".tsx">>, <<"@", "y", ".ts">>}

TargetPaths ==
    <<<<"widgets", ".tsx">>, <<"widgets", "index", ".ts">>, <<"src", "widgets", ".ts">>,
      <<"utils", "Card", ".tsx">>, <<"pages", "Home", ".tsx">>>>

\* The imports of the importing file: a directory or file of the same name;
\* an alias and a package; the text of a path; a file with its extension
\* and a file that does not exist.
ImportLists ==
    {<<Import("default", "widgets", <<".", "widgets">>)>>,
     <<Import("default", "widgets", <<"@/", "widgets">>),
       Import("default", "leftPad", <<"left-pad">>)>>,
     <<Import("default", "y", <<"@/", "y", ".ts">>)>>,
     <<Import("default", "widgets", <<".", "widgets", ".tsx">>),
       Import("default", "missing", <<".", "missing">>)>>,
     <<Import("default", "Home", <<"/", "pages", "Home">>),
       Import("Card", "", <<"..", "utils", "Card">>)>>}

ImporterFile(p, imports) ==
    [GraphFile(p, [components |-> <<>>, contextAPIs |-> <<>>, functions |-> <<>>,
                   declaredTypes |-> <<>>],
               [imports |-> imports,
                components |-> <<[name |-> "App", isExported |-> FALSE, isFunctional |-> TRUE,
                                  inferredHOC |-> "withTheme"]>>,
                contextAPIs |-> <<[name |-> "Theme", type |-> "Provider"]>>,
                jsxElementsUsed |-> <<Usage("Card", 1)>>,
                typesUsedInAnnotations |-> <<Usage("Props", 1)>>])
     EXCEPT !.file = ScannedFile(p)]

\* What a target file holds: an exported function; a component that uses a
\* hook; or a context with its wrapper and type.
Structures ==
    {[components |-> <<>>, contextAPIs |-> <<>>, functions |-> <<ExportedFunction("formatDate")>>,
      declaredTypes |-> <<>>, reactHooksUsed |-> <<>>],
     [components |-> <<Component("Card", TRUE, "")>>, contextAPIs |-> <<>>, functions |-> <<>>,
      declaredTypes |-> <<>>, reactHooksUsed |-> <<Usage("useState", 1)>>],
     [components |-> <<>>, contextAPIs |-> <<[name |-> "Theme", type |-> "Context"]>>,
      functions |-> <<ExportedFunction("withTheme")>>,
      declaredTypes |-> <<[name |-> "Props", isExported |-> TRUE]>>,
      reactHooksUsed |-> <<>>]}

TargetFile(p, st) ==
    [GraphFile(p, st, References0)
     EXCEPT !.file = ScannedFile(p), !.reactHooksUsed = st.reactHooksUsed]

RECURSIVE TargetsOf(_, _)
TargetsOf(from, n) ==
    IF n = 0 \/ from > Len(TargetPaths) THEN {<<>>}
    ELSE TargetsOf(from + 1, n)
         \cup {<<<<TargetPaths[from], TargetFile(TargetPaths[from], st)>>>> \o rest :
                  st \in Structures, rest \in TargetsOf(from + 1, n - 1)}

FileInputs ==
    {[analyzedFiles |-> <<<<p, ImporterFile(p, imports)>>>> \o targets] :
        p \in ImporterPaths, imports \in ImportLists, targets \in TargetsOf(1, MaxTargets)}

InitFiles ==
    /\ OrchestratorInit
    /\ analysis \in FileInputs
    /\ GraphInit

SpecFiles == InitFiles /\ [][NextGraph]_vars

(***************************************************************************)
(* The resolve step on up to MaxMembers projects of one analyzed file      *)
(* each, the files holding what the analyzer can report: a component; a    *)
(* function and a wrapper of a React hook; a context with a function       *)
(* declared twice (once in a namespace).                                   *)
(***************************************************************************)
MaxMembers == 3

\* Where a file is, the role the scanner infers from that path, and the
\* number of lines of the file.
ResolveSites ==
    {[relativePath |-> "a.tsx", inferredRole |-> "other", loc |-> 10],
     [relativePath |-> "a.tsx", inferredRole |-> "other", loc |-> 40],
     [relativePath |-> "utils/b.tsx", inferredRole |-> "util", loc |-> 10]}

ResolveContents ==
    {[Analysis(0, "", NoRole, 0, <<Component("Card", TRUE, "")>>, <<>>)
        EXCEPT !.jsxElementsUsed = <<Usage("div", 1)>>],
     [Analysis(0, "", NoRole, 0, <<>>,
               <<ExportedFunction("Card"), ExportedFunction("useState")>>)
        EXCEPT !.reactHooksUsed = <<Usage("useState", 1)>>],
     [Analysis(0, "", NoRole, 0, <<>>,
               <<ExportedFunction("formatDate"), ExportedFunction("formatDate")>>)
        EXCEPT !.contextAPIs = <<[name |-> "Card", type |-> "Context"]>>,
               !.declaredVariables = <<[name |-> "Card", isExported |-> TRUE]>>]}

ResolveFilesAt(p) ==
    {[c EXCEPT !.file = [relativePath |-> s.relativePath,
                         absolutePath |-> <<p, s.relativePath>>,
                         inferredRole |-> s.inferredRole],
               !.loc = s.loc] :
        c \in ResolveContents, s \in ResolveSites}

RECURSIVE ResolveWorkspacesOf(_)
ResolveWorkspacesOf(n) ==
    IF n = 0 THEN {<<>>}
    ELSE {Append(ws, [analyzedFiles |-> <<f>>]) :
            ws \in ResolveWorkspacesOf(n - 1), f \in ResolveFilesAt(n)}

ResolveInputs == UNION {ResolveWorkspacesOf(n) : n \in 1 .. MaxMembers}

\* The run has validated and scanned; the resolve step is next.
InitResolve ==
    /\ step = "resolve"
    /\ \E ws \in ResolveInputs :
          context = [currentStepStatus |-> "running", overallSuccess |-> FALSE,
                     validationReport |-> [overallStatus |-> "passed"],
                     analyzedWorkspaces |-> ws]
    /\ result = [returned |-> FALSE]
    /\ mergeCalls = <<>>
    /\ firstRun = NoRun
    /\ analysis = [analyzedFiles |-> <<>>]
    /\ GraphInit

SpecResolve == InitResolve /\ [][ResolveAndMerge]_vars

(***************************************************************************)
(* Properties of the resolve step and of the pipeline.                     *)
(***************************************************************************)
Kinds == {"component", "hook", "context", "utility"}

\* The state holds the output of runResolveAndMergeStep.
ResolveDone == "resolveMergeConflicts" \in DOMAIN context

GroupsOf(kind) == ByName(context.analyzedWorkspaces, kind)

MergedList(kind) ==
    CASE kind = "component" -> context.mergedEntities.components
      [] kind = "hook"      -> context.mergedEntities.hooks
      [] kind = "context"   -> context.mergedEntities.contexts
      [] OTHER              -> context.mergedEntities.utilities

Emitted(kind, name) == \E e \in Range(MergedList(kind)) : e.name = name

\* The conflicts of the report that were produced for the group (kind, name).
ReportedFor(kind, name) ==
    SelectSeq(context.resolveMergeConflicts.criticalErrors
                  \o context.resolveMergeConflicts.warnings,
              LAMBDA c : c.message = [entityType |-> kind, name |-> name])

HasError(conflicts) == \E c \in Range(conflicts) : c.severity = "error"

\* The deepSmartMerge calls made for the group (kind, name).
CallsFor(kind, name) ==
    SelectSeq(mergeCalls,
              LAMBDA call : /\ call.entityName = name
                            /\ call.entitiesToMerge[1].id = generateUnifiedPath(name, kind))

\* C1: for every (kind, name) group of a resolved run, canBeMerged holds and
\* a merged entity is emitted exactly when none of the conflicts produced for
\* the group has severity error.
C1_MergeableIffNoErrorConflict ==
    ResolveDone =>
        \A kind \in Kinds : \A i \in DOMAIN GroupsOf(kind) :
            /\ detectConflictsForEntity(GroupsOf(kind)[i][1], GroupsOf(kind)[i][2], kind).canBeMerged
                 <=> ~HasError(detectConflictsForEntity(GroupsOf(kind)[i][1],
                                                        GroupsOf(kind)[i][2], kind).conflicts)
            /\ Emitted(kind, GroupsOf(kind)[i][1])
                 <=> ~HasError(ReportedFor(kind, GroupsOf(kind)[i][1]))

\* A resolved run with a blocked group and a shared group that is emitted
\* although it carries a warning.
C1_Witness ==
    /\ ResolveDone
    /\ context.resolveMergeConflicts.criticalErrors # <<>>
    /\ \E e \in Range(context.mergedEntities.utilities) :
          e.isShared /\ ReportedFor("utility", e.name) # <<>>

\* C2: a run over input with one group in error conflict and another group
\* mergeable still returns success = true.
C2_ErrorConflictIsEntityLocal ==
    (/\ result.returned
     /\ ResolveDone
     /\ context.resolveMergeConflicts.criticalErrors # <<>>
     /\ \E kind \in Kinds : MergedList(kind) # <<>>)
    => result.success

\* C3: the normalized code handed to deepSmartMerge as the dominant entity
\* of a group was read from the file of the group's first member.
C3_DominantIsFirstMember ==
    ResolveDone =>
        \A kind \in Kinds : \A i \in DOMAIN GroupsOf(kind) :
            \A c \in DOMAIN CallsFor(kind, GroupsOf(kind)[i][1]) :
                CallsFor(kind, GroupsOf(kind)[i][1])[c].entitiesToMerge[1].normalizedCode.readFrom
                    = GroupsOf(kind)[i][2][1].file.absolutePath

\* C4: deepSmartMerge receives all n members of a mergeable group: the first
\* as dominant entity and the other n - 1 to combine.
C4_AllMembersReachContentMerge ==
    ResolveDone =>
        \A kind \in Kinds : \A i \in DOMAIN GroupsOf(kind) :
            \A c \in DOMAIN CallsFor(kind, GroupsOf(kind)[i][1]) :
                Len(CallsFor(kind, GroupsOf(kind)[i][1])[c].entitiesToMerge)
                    = Len(GroupsOf(kind)[i][2])

\* C5: a group of exactly one member gets no conflict and is mergeable.
C5_SingleMemberNoConflict ==
    ResolveDone =>
        \A kind \in Kinds : \A i \in DOMAIN GroupsOf(kind) :
            Len(GroupsOf(kind)[i][2]) = 1 =>
                /\ detectConflictsForEntity(GroupsOf(kind)[i][1], GroupsOf(kind)[i][2], kind)
                     = [conflicts |-> <<>>, canBeMerged |-> TRUE]
                /\ ReportedFor(kind, GroupsOf(kind)[i][1]) = <<>>
                /\ Emitted(kind, GroupsOf(kind)[i][1])

\* A resolved run that reports conflicts, with a group of one member.
C5_Witness ==
    /\ ResolveDone
    /\ context.resolveMergeConflicts.hasConflicts
    /\ \E kind \in Kinds : \E i \in DOMAIN GroupsOf(kind) :
          Len(GroupsOf(kind)[i][2]) = 1 /\ Emitted(kind, GroupsOf(kind)[i][1])

\* The non-first members of a component group whose functional/class form
\* differs from the first member's.
DifferingMembers(name, members) ==
    {j \in 2 .. Len(members) :
        members[j].components[FindComponent(members[j], name)].isFunctional
            # members[1].components[FindComponent(members[1], name)].isFunctional}

StructuralConflicts(name) ==
    SelectSeq(ReportedFor("component", name),
              LAMBDA c : c.type = "component-structural-difference")

\* C6: in a component group every non-first member whose form differs from
\* the first member's yields exactly one error conflict of type
\* component-structural-difference naming the two files; such a group is not
\* mergeable, no merged entity is emitted and it never reaches content merge.
C6_StructuralDifferenceBlocks ==
    ResolveDone =>
        \A i \in DOMAIN GroupsOf("component") :
            /\ \A c \in Range(StructuralConflicts(GroupsOf("component")[i][1])) :
                  c.severity = "error"
            /\ \A rp \in RelPaths :
                  Cardinality({k \in DOMAIN StructuralConflicts(GroupsOf("component")[i][1]) :
                      StructuralConflicts(GroupsOf("component")[i][1])[k].relatedFiles
                          = <<GroupsOf("component")[i][2][1].file.relativePath, rp>>})
                  = Cardinality({j \in DifferingMembers(GroupsOf("component")[i][1],
                                                        GroupsOf("component")[i][2]) :
                      GroupsOf("component")[i][2][j].file.relativePath = rp})
            /\ DifferingMembers(GroupsOf("component")[i][1], GroupsOf("component")[i][2]) # {} =>
                  /\ ~detectConflictsForEntity(GroupsOf("component")[i][1],
                                               GroupsOf("component")[i][2], "component").canBeMerged
                  /\ ~Emitted("component", GroupsOf("component")[i][1])
                  /\ CallsFor("component", GroupsOf("component")[i][1]) = <<>>

\* A finished run whose Button group has a member of the other form.
C6_Witness ==
    /\ ResolveDone
    /\ result.returned
    /\ \E i \in DOMAIN GroupsOf("component") :
          DifferingMembers(GroupsOf("component")[i][1], GroupsOf("component")[i][2]) # {}


(***************************************************************************)
(* Properties of buildDependencyGraph, stated over SpecGraph.              *)
(***************************************************************************)
\* The file a reference resolves to, as the edge loop resolves it: <<>> or
\* <<relativePath>>.
TargetAt(f, k, i) ==
    LET files == analysis.analyzedFiles
        ref == ReferencesAt(analysis, f, k)[i]
    IN CASE k = 1 -> resolveImportPath(files[f][1], ref.path, files)
         [] k = 2 -> IF MapHas(componentExportsMap(files), ref.name)
                     THEN <<MapGet(componentExportsMap(files), ref.name)>> ELSE <<>>
         [] k = 3 -> IF ref.type \in {"Provider", "Consumer"}
                     THEN contextDefinitionFile(files, ref.name) ELSE <<>>
         [] k = 4 -> IF ref.inferredHOC # "" THEN hocDefinitionFile(files, ref.inferredHOC)
                     ELSE <<>>
         [] OTHER -> IF MapHas(typeExportsMap(files), ref.name)
                     THEN <<MapGet(typeExportsMap(files), ref.name)>> ELSE <<>>

TypeAt(f, k, i) ==
    IF k = 1 THEN EdgeTypeOfImport(ReferencesAt(analysis, f, k)[i]) ELSE KindOrder[k]

\* The name a reference is discovered under.
NameAt(f, k, i) ==
    LET ref == ReferencesAt(analysis, f, k)[i]
    IN CASE k = 1 -> IF ref.importedAs # "" THEN ref.importedAs ELSE ref.name
         [] k = 4 -> ref.inferredHOC
         [] OTHER -> ref.name

AllReferences ==
    UNION {UNION {{<<f, k, i>> : i \in DOMAIN ReferencesAt(analysis, f, k)} :
                     k \in DOMAIN KindOrder} :
              f \in DOMAIN analysis.analyzedFiles}

UniqueTriples(es) ==
    \A i, j \in DOMAIN es :
        es[i].from = es[j].from /\ es[i].to = es[j].to /\ es[i].type = es[j].type => i = j

\* C7: no two edges of the graph, while it is built and when it is returned,
\* have the same (from, to, type).
C7_EdgesUniquePerTriple ==
    /\ UniqueTriples(edges)
    /\ graph.returned => UniqueTriples(graph.edges)

\* A graph was returned in which an edge was discovered more than once: two
\* references of one file have the same target and type.
C7_Witness ==
    /\ graph.returned
    /\ \E r, q \in AllReferences :
        /\ r # q /\ r[1] = q[1]
        /\ TargetAt(r[1], r[2], r[3]) # <<>>
        /\ TargetAt(r[1], r[2], r[3]) = TargetAt(q[1], q[2], q[3])
        /\ TypeAt(r[1], r[2], r[3]) = TypeAt(q[1], q[2], q[3])
        /\ TargetAt(r[1], r[2], r[3])[1] # analysis.analyzedFiles[r[1]][1]
        /\ \E e \in Range(graph.edges) :
              /\ e.from = analysis.analyzedFiles[r[1]][1]
              /\ e.to = TargetAt(r[1], r[2], r[3])[1]
              /\ e.type = TypeAt(r[1], r[2], r[3])

\* The edge loop is about to handle a reference whose edge exists already.
Rediscovering ==
    /\ cursor.file \in DOMAIN analysis.analyzedFiles
    /\ TargetAt(cursor.file, cursor.kind, cursor.index) # <<>>
    /\ TargetAt(cursor.file, cursor.kind, cursor.index)[1] # Current.from
    /\ EdgeId(Current.from, TargetAt(cursor.file, cursor.kind, cursor.index)[1],
              TypeAt(cursor.file, cursor.kind, cursor.index)) \in processedEdges

RediscoveredEdge ==
    FindEdge(edges, Current.from, TargetAt(cursor.file, cursor.kind, cursor.index)[1],
             TypeAt(cursor.file, cursor.kind, cursor.index))

\* C8: when a reference is handled whose edge exists already, no edge is
\* added, the weight of the existing edge strictly increases and the name of
\* the reference is among its importedNames afterwards, for every edge type.
C8_RediscoveryUpdatesEdge ==
    [][Rediscovering /\ cursor' # cursor =>
        /\ Len(edges') = Len(edges)
        /\ "weight" \in DOMAIN edges[RediscoveredEdge]
        /\ "weight" \in DOMAIN edges'[RediscoveredEdge]
        /\ edges'[RediscoveredEdge].weight > edges[RediscoveredEdge].weight
        /\ NameAt(cursor.file, cursor.kind, cursor.index)
              \in Range(edges'[RediscoveredEdge].importedNames)]_vars

\* C9: no edge, while the graph is built and when it is returned, has from
\* equal to to.
C9_NoSelfEdge ==
    /\ \A e \in Range(edges) : e.from # e.to
    /\ graph.returned => \A e \in Range(graph.edges) : e.from # e.to

\* A graph was returned for files one of which refers to itself.
C9_Witness ==
    /\ graph.returned
    /\ \E r \in AllReferences :
          TargetAt(r[1], r[2], r[3]) = <<analysis.analyzedFiles[r[1]][1]>>

RenderEdges(f, g) ==
    SelectSeq(graph.edges, LAMBDA e : e.from = f /\ e.to = g /\ e.type = "render-usage")

\* No tag of file f other than its i-th resolves to g.
OnlyTagResolvingTo(f, i, g) ==
    \A j \in DOMAIN ReferencesAt(analysis, f, 2) : j # i => TargetAt(f, 2, j) # <<g>>

OneRenderEdge(f, i, g) ==
    /\ Len(RenderEdges(analysis.analyzedFiles[f][1], g)) = 1
    /\ RenderEdges(analysis.analyzedFiles[f][1], g)[1].weight = ReferencesAt(analysis, f, 2)[i].count
    /\ RenderEdges(analysis.analyzedFiles[f][1], g)[1].importedNames
          = <<ReferencesAt(analysis, f, 2)[i].name>>

\* C10: if file f uses tag T k times, T resolves to a file g other than f
\* (g is the last file, in the order of the analysis, that exports a
\* component named T) and no other tag used in f resolves to g, the
\* returned graph has exactly one render-usage edge f -> g, with weight k
\* and importedNames <<T>>.
C10_RenderUsageEdge ==
    graph.returned =>
        \A f \in DOMAIN analysis.analyzedFiles :
            \A i \in DOMAIN ReferencesAt(analysis, f, 2) :
                /\ TargetAt(f, 2, i) # <<>>
                /\ TargetAt(f, 2, i)[1] # analysis.analyzedFiles[f][1]
                /\ OnlyTagResolvingTo(f, i, TargetAt(f, 2, i)[1])
                => OneRenderEdge(f, i, TargetAt(f, 2, i)[1])

\* A graph was returned for a file that uses a tag twice, the tag resolving
\* to another file to which no other tag of the file resolves.
C10_Witness ==
    /\ graph.returned
    /\ \E f \in DOMAIN analysis.analyzedFiles :
        \E i \in DOMAIN ReferencesAt(analysis, f, 2) :
            /\ ReferencesAt(analysis, f, 2)[i].count = 2
            /\ TargetAt(f, 2, i) # <<>>
            /\ TargetAt(f, 2, i)[1] # analysis.analyzedFiles[f][1]
            /\ OnlyTagResolvingTo(f, i, TargetAt(f, 2, i)[1])

\* File g exports a component named T.
ExportsComponent(g, T) ==
    \E c \in Range(analysis.analyzedFiles[g][2].components) : c.isExported /\ c.name = T

\* C10 as stated: if file f uses tag T k times, T is an exported component
\* of a file g other than f and no other tag used in f resolves to g, the
\* returned graph has exactly one render-usage edge f -> g, with weight k
\* and importedNames <<T>>.
C10_AnyExporter ==
    graph.returned =>
        \A f, g \in DOMAIN analysis.analyzedFiles :
            \A i \in DOMAIN ReferencesAt(analysis, f, 2) :
                /\ g # f
                /\ ExportsComponent(g, ReferencesAt(analysis, f, 2)[i].name)
                /\ OnlyTagResolvingTo(f, i, analysis.analyzedFiles[g][1])
                => OneRenderEdge(f, i, analysis.analyzedFiles[g][1])


(***************************************************************************)
(* Properties of import resolution and node typing, stated over SpecFiles. *)
(***************************************************************************)
Analysed(p) == MapHas(analysis.analyzedFiles, p)

WithExtension(base) == {Append(base, e) : e \in Range(COMMON_FILE_EXTENSIONS)}

IndexFiles(base) == {base \o <<"index", e>> : e \in Range(COMMON_FILE_EXTENSIONS)}

AnyTry(base) == {base} \cup WithExtension(base) \cup IndexFiles(base)

\* The specifier starts with '.', '/' or '@'.
IsInternalSpecifier(importSource) ==
    importSource # <<>> /\ Head(importSource) \in {".", "..", "/", "@/", "@scope"}

\* What import i of file f resolves to.
ResolvedAt(f, i) ==
    resolveImportPath(analysis.analyzedFiles[f][1], ReferencesAt(analysis, f, 1)[i].path,
                      analysis.analyzedFiles)

PrefersExtensionOverIndex(base, resolved) ==
    /\ Analysed(base) => resolved = <<base>>
    /\ ~Analysed(base) /\ (\E p \in WithExtension(base) : Analysed(p))
          => resolved # <<>> /\ resolved[1] \in WithExtension(base)
    /\ (\E p \in AnyTry(base) : Analysed(p)) => resolved # <<>> /\ resolved[1] \in AnyTry(base)

\* C11: for the first candidate base path any try of which is an analysed
\* file, an import resolves to the exact path if it is analysed, else to the
\* base path with an extension appended if such a file is analysed, whatever
\* index files the base path holds; the tries of an earlier base path come
\* before those of a later one.
C11_ExtensionBeforeIndex ==
    \A f \in DOMAIN analysis.analyzedFiles :
        \A i \in DOMAIN ReferencesAt(analysis, f, 1) :
            IsInternalSpecifier(ReferencesAt(analysis, f, 1)[i].path) =>
                \A k \in DOMAIN possiblePathsToTry(analysis.analyzedFiles[f][1],
                                                   ReferencesAt(analysis, f, 1)[i].path) :
                    (\A j \in 1 .. k - 1 :
                        \A p \in AnyTry(possiblePathsToTry(analysis.analyzedFiles[f][1],
                                            ReferencesAt(analysis, f, 1)[i].path)[j]) :
                            ~Analysed(p))
                    => PrefersExtensionOverIndex(
                          possiblePathsToTry(analysis.analyzedFiles[f][1],
                                             ReferencesAt(analysis, f, 1)[i].path)[k],
                          ResolvedAt(f, i))

\* The edge loop handles an import now.
HandlesImport == AtReference("import") /\ cursor' # cursor

\* C12: handling an import whose specifier does not start with '.', '/' or
\* '@' leaves the edges and unresolvedImports as they are.
C12_BareSpecifierIgnored ==
    [][HandlesImport /\ ~IsInternalSpecifier(Current.ref.path) =>
        edges' = edges /\ unresolvedImports' = unresolvedImports]_vars

\* The import of a package has been handled, in a project in which other
\* imports made an edge or an unresolved entry.
C12_Witness ==
    /\ graph.returned
    /\ \E f \in DOMAIN analysis.analyzedFiles :
          \E i \in DOMAIN ReferencesAt(analysis, f, 1) :
              ~IsInternalSpecifier(ReferencesAt(analysis, f, 1)[i].path)
    /\ Len(graph.edges) + Len(graph.unresolvedImports) > 0

\* C13: handling an import whose specifier starts with '.', '/' or '@' adds
\* exactly one entry (importing file, specifier) to unresolvedImports and
\* leaves the edges as they are if it resolves to no analysed file, and
\* leaves unresolvedImports as it is if it resolves.
C13_UnresolvedImportRecorded ==
    [][HandlesImport /\ IsInternalSpecifier(Current.ref.path) =>
            IF ResolvedAt(cursor.file, cursor.index) = <<>>
            THEN /\ unresolvedImports' =
                        Append(unresolvedImports,
                               [from |-> Current.from, importPath |-> Current.ref.path])
                 /\ edges' = edges
            ELSE unresolvedImports' = unresolvedImports]_vars


\* The node type an inferred role maps to, "" if it maps to none.
TypeOfRole(role) ==
    CASE role = "page" -> "page"
      [] role = "util" -> "utility"
      [] role \in {"api", "config", "asset", "style"} -> role
      [] OTHER -> ""

\* The node type by the priority role > structural signal > path convention
\* > extension > 'unknown'.
TypeByPriority(fa) ==
    IF TypeOfRole(fa.file.inferredRole) # "" THEN TypeOfRole(fa.file.inferredRole)
    ELSE IF fa.components # <<>> THEN "component"
    ELSE IF fa.reactHooksUsed # <<>> THEN "hook"
    ELSE IF fa.contextAPIs # <<>> THEN "utility"
    ELSE IF "routes" \in Range(dirname(fa.file.relativePath)) THEN "page"
    ELSE IF "layouts" \in Range(dirname(fa.file.relativePath)) THEN "component"
    ELSE IF Extension(fa.file.relativePath) = ".json" THEN "config"
    ELSE IF Extension(fa.file.relativePath) \in {".css", ".scss", ".less"} THEN "style"
    ELSE IF Extension(fa.file.relativePath) \in {".ts", ".js", ".tsx", ".jsx"} THEN "utility"
    ELSE "unknown"

\* C14: every node has the type its file's inferred role maps to if the role
\* maps to one, whatever the file declares or uses, and otherwise the type
\* given by its structural signals, then its path, then its extension.
C14_RoleBeforeStructure ==
    \A f \in DOMAIN nodes : nodes[f].type = TypeByPriority(analysis.analyzedFiles[f][2])


(***************************************************************************)
(* Properties of the groups the resolve step forms.                        *)
(***************************************************************************)
ResolvedFiles == Range(AllFiles(context.analyzedWorkspaces))

\* The file is a member of the group (kind, name).
MemberOf(fa, kind, name) ==
    \E g \in Range(GroupsOf(kind)) : g[1] = name /\ fa \in Range(g[2])

UsesHook(fa, name) == \E u \in Range(fa.reactHooksUsed) : u.name = name

ExportsCallable(fa, name) ==
    \E e \in Range(fa.exports) : e.name = name /\ e.type \in {"function", "variable"}

HookNames ==
    {u.name : u \in UNION {Range(fa.reactHooksUsed) : fa \in ResolvedFiles}}
        \cup {g[1] : g \in Range(GroupsOf("hook"))}

\* C15: after the resolve step, a file is a member of the hook group named N
\* exactly when N is a name of the file's reactHooksUsed profile and the
\* file exports a function or variable named N.
C15_HookGroupMembership ==
    ResolveDone =>
        \A fa \in ResolvedFiles : \A N \in HookNames :
            MemberOf(fa, "hook", N) <=> (UsesHook(fa, N) /\ ExportsCallable(fa, N))

\* The source files of the members of a group.
SourcesOf(members) == {members[i].file.absolutePath : i \in DOMAIN members}

\* C16: after the resolve step, no source file occurs more than once among
\* the members of a group, and an emitted entity has isShared only if its
\* group has members from at least two distinct source files.
C16_OneMemberPerSourceFile ==
    ResolveDone =>
        \A kind \in Kinds :
            /\ \A g \in Range(GroupsOf(kind)) :
                   Cardinality(SourcesOf(g[2])) = Len(g[2])
            /\ \A e \in Range(MergedList(kind)) :
                   e.isShared =>
                       \E g \in Range(GroupsOf(kind)) :
                           g[1] = e.name /\ Cardinality(SourcesOf(g[2])) >= 2

\* The file declares a candidate of the kind with the name.
Declares(fa, kind, name) ==
    CASE kind = "component" -> \E c \in Range(fa.components) : c.name = name
      [] kind = "hook"      -> UsesHook(fa, name) /\ ExportsCallable(fa, name)
      [] kind = "context"   ->
            \E x \in Range(fa.contextAPIs) : x.name = name /\ x.type = "Context"
      [] OTHER ->
            /\ ~\E c \in Range(fa.components) : c.name = name
            /\ \/ \E f \in Range(fa.functions) : f.name = name /\ f.isExported
               \/ /\ \E v \in Range(fa.declaredVariables) : v.name = name /\ v.isExported
                  /\ ~\E x \in Range(fa.contextAPIs) : x.name = name

DeclaringPaths(kind, name) ==
    {fa.file.relativePath : fa \in {f \in ResolvedFiles : Declares(f, kind, name)}}

AllConflicts ==
    context.resolveMergeConflicts.criticalErrors \o context.resolveMergeConflicts.warnings

\* C17: after the resolve step, the members of an emitted entity of a kind
\* are all the files, of all projects, that declare a candidate of that kind
\* and name, and no others; a kind has at most one entity of a name; and the
\* two files of every conflict both declare a candidate of the conflict's
\* kind and name.
C17_GroupsKeyedByKindAndName ==
    ResolveDone =>
        /\ \A kind \in Kinds :
              /\ \A e \in Range(MergedList(kind)) :
                     Range(e.originalPaths) = DeclaringPaths(kind, e.name)
              /\ \A i, j \in DOMAIN MergedList(kind) :
                     MergedList(kind)[i].name = MergedList(kind)[j].name => i = j
        /\ \A c \in Range(AllConflicts) :
              Range(c.relatedFiles) \subseteq DeclaringPaths(c.message.entityType, c.message.name)

\* A component and a utility of the same name are both emitted, and an
\* entity has members from two projects.
C17_Witness ==
    /\ ResolveDone
    /\ Emitted("component", "Card")
    /\ Emitted("utility", "Card")
    /\ \E e \in Range(MergedList("component")) : Len(e.originalPaths) = 2

\* The non-first members of a group, by position, that differ from the
\* first member in lines of code, and in inferred role.
NonFirst(members) == [i \in 1 .. Len(members) - 1 |-> i + 1]

LocDiffering(members) ==
    SelectSeq(NonFirst(members), LAMBDA i : members[i].loc # members[1].loc)

RoleDiffering(members) ==
    SelectSeq(NonFirst(members), LAMBDA i : RoleOf(members[i]) # RoleOf(members[1]))

\* relatedFiles of the comparisons of the first member with the members at
\* the positions, in order.
FirstWith(members, positions) ==
    [k \in DOMAIN positions |->
        <<members[1].file.relativePath, members[positions[k]].file.relativePath>>]

RelatedFilesOf(conflicts, type) ==
    LET cs == SelectSeq(conflicts, LAMBDA c : c.type = type)
    IN [k \in DOMAIN cs |-> cs[k].relatedFiles]

\* C18: after the resolve step, every conflict of a group names the group's
\* first member and one non-first member, and the conflicts of the types
\* role-mismatch and utility-loc-difference are one per non-first member
\* that differs from the first member, in member order: each non-first
\* member was compared once, with the first member.
C18_ComparedWithFirstOnly ==
    ResolveDone =>
        \A kind \in Kinds : \A g \in Range(GroupsOf(kind)) :
            /\ \A c \in Range(ReportedFor(kind, g[1])) :
                   \E i \in 2 .. Len(g[2]) :
                       c.relatedFiles = <<g[2][1].file.relativePath, g[2][i].file.relativePath>>
            /\ RelatedFilesOf(ReportedFor(kind, g[1]), "utility-loc-difference")
                   = FirstWith(g[2], LocDiffering(g[2]))
            /\ RelatedFilesOf(ReportedFor(kind, g[1]), "role-mismatch")
                   = FirstWith(g[2], RoleDiffering(g[2]))

\* A group of three members: the second differs from the first, the third
\* differs from the second but not from the first.
C18_Witness ==
    /\ ResolveDone
    /\ \E kind \in Kinds : \E g \in Range(GroupsOf(kind)) :
          /\ Len(g[2]) = 3
          /\ g[2][2].loc # g[2][1].loc
          /\ g[2][3].loc = g[2][1].loc
          /\ RoleOf(g[2][2]) # RoleOf(g[2][1])
          /\ RoleOf(g[2][3]) = RoleOf(g[2][1])
          /\ Len(ReportedFor(kind, g[1])) >= 2

(***************************************************************************)
(* Properties of the merge and render steps.                               *)
(***************************************************************************)
MergeDone == "finalMergedEntities" \in DOMAIN context

\* The final entities the merge step pushed for the entity of the call.
FinalsOf(call) ==
    SelectSeq(context.finalMergedEntities, LAMBDA e : e.id = call.entitiesToMerge[1].id)

\* C19: after the merge step, an entity that was passed to deepSmartMerge
\* with w warnings has the quality score 100 - 5 * w, and needs manual
\* review exactly when that score is below 70 or w > 0.
C19_QualityScore ==
    MergeDone =>
        \A call \in Range(mergeCalls) : \A e \in Range(FinalsOf(call)) :
            /\ e.mergeQualityScore = 100 - 5 * Len(call.warnings)
            /\ e.needsManualReview <=> (e.mergeQualityScore < 70 \/ Len(call.warnings) > 0)

\* The merge step pushed the entity as skipped, to be reviewed.
SkippedByMerge(id) ==
    /\ MergeDone
    /\ \E e \in Range(context.finalMergedEntities) :
          e.id = id /\ e.status = "skipped-conflict" /\ e.needsManualReview

\* The render step wrote a placeholder at the entity's unified path.
PlaceholderWritten(id) ==
    /\ "outputFiles" \in DOMAIN context
    /\ MapHas(context.outputFiles, id)
    /\ MapGet(context.outputFiles, id).kind = "placeholder"

\* C20: when the run has returned, an entity whose group has an error
\* conflict was not passed to deepSmartMerge, was pushed by the merge step
\* with status 'skipped-conflict' and needsManualReview, and has a
\* placeholder written by the render step.
C20_ErrorConflictSkipped ==
    (result.returned /\ ResolveDone) =>
        \A kind \in Kinds : \A g \in Range(GroupsOf(kind)) :
            HasError(ReportedFor(kind, g[1])) =>
                /\ CallsFor(kind, g[1]) = <<>>
                /\ SkippedByMerge(generateUnifiedPath(g[1], kind))
                /\ PlaceholderWritten(generateUnifiedPath(g[1], kind))

(***************************************************************************)
(* Properties of a whole run of the orchestrator.                          *)
(***************************************************************************)
Scanned == "analyzedWorkspaces" \in DOMAIN context

\* No project of the input contributes a candidate of any kind.
NoEntityAtAll == \A kind \in Kinds : GroupsOf(kind) = <<>>

\* C21: a run whose scanned input holds no entity of any kind returns with
\* success = false.
C21_NoEntitiesFails ==
    (result.returned /\ Scanned /\ NoEntityAtAll) => ~result.success

\* The entities the resolve step emitted, each with its kind.
EmittedEntities ==
    UNION {{[kind |-> kind, entity |-> e] : e \in Range(MergedList(kind))} : kind \in Kinds}

\* C22: after the resolve step, whatever the order of the projects and of
\* the calls made before, the id and the unified path of every emitted
\* entity are the path of its (kind, name), the same path the single-pass
\* resolver's generateUnifiedPath computes; two emitted entities of the
\* same kind and name have the same path.
C22_UnifiedPathIsFunctionOfKindAndName ==
    ResolveDone =>
        /\ \A x \in EmittedEntities :
              /\ x.entity.id = resolveStep_generateUnifiedPath(x.entity.name, x.kind)
              /\ x.entity.unifiedPath = x.entity.id
        /\ \A x, y \in EmittedEntities :
              (x.kind = y.kind /\ x.entity.name = y.entity.name) => x.entity.id = y.entity.id

\* Three projects were resolved: the utility formatDate was assigned its
\* path after the paths of a component and of another utility.
C22_Witness ==
    /\ ResolveDone
    /\ Len(context.analyzedWorkspaces) = 3
    /\ Emitted("component", "Card")
    /\ Emitted("utility", "useState")
    /\ \E e \in Range(MergedList("utility")) :
          /\ e.name = "formatDate"
          /\ e.id = <<"merged", "utils",
                      <<"f", "o", "r", "m", "a", "t", "d", "a", "t", "e">>, ".ts">>

(***************************************************************************)
(* Two calls on the same analysis snapshot.  The caller keeps what the     *)
(* first call returned and calls again with the same argument: either      *)
(* buildDependencyGraph on one analyzed project or runResolveAndMergeStep  *)
(* on the analyzed workspaces.  Each call creates its own locals.          *)
(***************************************************************************)
\* The locals of a call, were the set of seen edge keys kept between calls.
GraphLocalsRetained ==
    [nodes |-> <<>>, edges |-> <<>>, processedEdges |-> processedEdges,
     unresolvedImports |-> <<>>]

\* The locals buildDependencyGraph creates on entry.
GraphLocals ==
    [nodes |-> <<>>, edges |-> <<>>, processedEdges |-> {}, unresolvedImports |-> <<>>]

\* buildDependencyGraph is entered a second time with the same argument.
BuildAgain ==
    /\ graph.returned
    /\ ~firstRun.ran
    /\ firstRun' = [ran |-> TRUE, of |-> "graph", output |-> graph]
    /\ nodes' = GraphLocals.nodes
    /\ edges' = GraphLocals.edges
    /\ processedEdges' = GraphLocals.processedEdges
    /\ unresolvedImports' = GraphLocals.unresolvedImports
    /\ cursor' = BeforeNodes
    /\ graph' = [returned |-> FALSE]
    /\ UNCHANGED analysis
    /\ UNCHANGED pvars

\* What the resolve step left in the context.
ResolveOutputIn(ctx) ==
    [mergedEntities |-> ctx.mergedEntities,
     mergeConflicts |-> ctx.resolveMergeConflicts,
     internalMap |-> ctx.internalMap]

\* runResolveAndMergeStep is called a second time with the same argument.
ResolveAgain ==
    /\ ResolveDone
    /\ ~firstRun.ran
    /\ firstRun' = [ran |-> TRUE, of |-> "resolve", output |-> ResolveOutputIn(context)]
    /\ LET r == runResolveAndMergeStep(context.analyzedWorkspaces)
       IN context' = [context EXCEPT !.mergedEntities = r.mergedEntities,
                                     !.resolveMergeConflicts = r.mergeConflicts,
                                     !.internalMap = r.internalMap]
    /\ UNCHANGED <<step, result, mergeCalls>>
    /\ UNCHANGED gvars

\* The snapshot handed to the resolver: one file from each of up to
\* MaxProjects projects.
TwiceResolveInputs == UNION {ResolveWorkspacesOf(n) : n \in 1 .. MaxProjects}

\* Either the resolve step is next, or buildDependencyGraph is entered.
InitTwice ==
    \/ /\ InitResolve
       /\ context.analyzedWorkspaces \in TwiceResolveInputs
    \/ InitGraph

NextTwice == NextGraph \/ BuildAgain \/ ResolveAndMerge \/ ResolveAgain

SpecTwice == InitTwice /\ [][NextTwice]_vars

C23_WitnessResolve ==
    /\ firstRun.ran
    /\ firstRun.of = "resolve"
    /\ Len(context.analyzedWorkspaces) >= 2
    /\ AllConflicts # <<>>
    /\ \E kind \in Kinds : MergedList(kind) # <<>>

(***************************************************************************)
(* The resolve step on two projects that declare the same component in     *)
(* files that differ only in the JSX usage profile the analyzer lists.     *)
(* The analyzer builds a profile from the entries of an object keyed by    *)
(* name, so a profile lists every name once, in any order, with a count    *)
(* of at least one.                                                        *)
(***************************************************************************)
\* number of entries of a usage profile
MaxUsages == 2

UsageNames == {"div", "span", "Card"}

UsageCounts == {1, 2}

RECURSIVE ProfilesOf(_)
ProfilesOf(n) ==
    IF n = 0 THEN {<<>>}
    ELSE UNION {{Append(p, Usage(name, count)) :
                    name \in UsageNames \ {p[i].name : i \in DOMAIN p},
                    count \in UsageCounts} :
                p \in ProfilesOf(n - 1)}

Profiles == UNION {ProfilesOf(n) : n \in 0 .. MaxUsages}

ProfiledFile(project, jsx) ==
    [Analysis(project, "a.tsx", NoRole, 10, <<Component("Card", TRUE, "")>>, <<>>)
        EXCEPT !.jsxElementsUsed = jsx]

InitProfiles ==
    /\ step = "resolve"
    /\ \E profile1, profile2 \in Profiles :
          context = [currentStepStatus |-> "running", overallSuccess |-> FALSE,
                     validationReport |-> [overallStatus |-> "passed"],
                     analyzedWorkspaces |->
                        <<[analyzedFiles |-> <<ProfiledFile(1, profile1)>>],
                          [analyzedFiles |-> <<ProfiledFile(2, profile2)>>]>>]
    /\ result = [returned |-> FALSE]
    /\ mergeCalls = <<>>
    /\ firstRun = NoRun
    /\ analysis = [analyzedFiles |-> <<>>]
    /\ GraphInit

SpecProfiles == InitProfiles /\ [][ResolveAndMerge]_vars

\* The JSX profile of the only file of the i-th project.
ProfileOfProject(i) == context.analyzedWorkspaces[i].analyzedFiles[1].jsxElementsUsed

\* A list as the multiset of its elements.
AsBag(p) == [x \in Range(p) |-> Cardinality({i \in DOMAIN p : p[i] = x})]

Reorderings(p) == {q \in ProfilesOf(Len(p)) : AsBag(q) = AsBag(p)}

JsxMismatchReported ==
    \E c \in Range(AllConflicts) : c.type = "component-jsx-profile-mismatch"

\* C24: the profile check reports no conflict between two usage profiles
\* exactly when they hold the same (name, count) pairs the same number of
\* times; its verdict is the same for every reordering of either list and
\* the same with the two arguments exchanged.
C24_ProfileCheckIsMultisetEquality ==
    ResolveDone =>
       /\ ~JsxMismatchReported <=> AsBag(ProfileOfProject(1)) = AsBag(ProfileOfProject(2))
       /\ compareNameCountProfiles(ProfileOfProject(1), ProfileOfProject(2))
            = compareNameCountProfiles(ProfileOfProject(2), ProfileOfProject(1))
       /\ \A r1 \in Reorderings(ProfileOfProject(1)), r2 \in Reorderings(ProfileOfProject(2)) :
             compareNameCountProfiles(r1, r2)
               = compareNameCountProfiles(ProfileOfProject(1), ProfileOfProject(2))

\* Two profiles of two entries that list the same pairs in different orders
\* were compared and no conflict was reported.
C24_Witness ==
    /\ ResolveDone
    /\ Len(ProfileOfProject(1)) = 2
    /\ ProfileOfProject(1) # ProfileOfProject(2)
    /\ AsBag(ProfileOfProject(1)) = AsBag(ProfileOfProject(2))
    /\ ~JsxMismatchReported

(***************************************************************************)
(* The merge step on the entities of a run, against the merge step on one  *)
(* entity alone.                                                           *)
(***************************************************************************)
\* The merge step has been run (it returned or it threw).
MergeRan == "normalizedEntities" \in DOMAIN context /\ step # "merge"

\* The final entities the merge step of this run pushed; none when it threw.
ActualFinals == IF MergeDone THEN context.finalMergedEntities ELSE <<>>

\* What is observed of a final entity: skipped or merged, score, review flag.
OutcomeRecord(e) ==
    [status |-> e.status,
     needsManualReview |-> e.needsManualReview,
     mergeQualityScore |-> IF "mergeQualityScore" \in DOMAIN e
                           THEN <<e.mergeQualityScore>> ELSE <<>>]

OutcomesOf(finals, id) == {OutcomeRecord(e) : e \in {x \in Range(finals) : x.id = id}}

\* The normalized entities without the entities of every other group.
OnlyEntity(id) ==
    [k \in DOMAIN context.normalizedEntities |->
        SelectSeq(context.normalizedEntities[k], LAMBDA e : e.id = id)]

\* The merge step on the entity of the group alone, with the conflicts that
\* were produced for that group and no others.
MergedAlone(kind, name) ==
    runMergeStep(OnlyEntity(generateUnifiedPath(name, kind)),
                 context.analyzedWorkspaces,
                 MergeConflictReport(ReportedFor(kind, name)))

\* C25: after the merge step, the outcome of every emitted entity (status,
\* quality score, review flag) is the outcome the merge step gives that
\* entity when the other groups and their conflicts are taken out of its
\* input.
C25_OutcomeDependsOnOwnGroupOnly ==
    MergeRan =>
        \A kind \in Kinds : \A e \in Range(MergedList(kind)) :
            OutcomesOf(ActualFinals, e.id)
                = OutcomesOf(MergedAlone(kind, e.name).finalMergedEntities, e.id)

\* The distinct unified ids among the normalized entities handed to the
\* merge step.
NormalizedIds ==
    {e.id : e \in UNION {Range(context.normalizedEntities[k]) :
                            k \in DOMAIN context.normalizedEntities}}

\* C26: the merge step, once run, has returned; it pushed exactly one final
\* entity for every distinct unified id among the normalized entities, an
\* entity whose merge failed having status 'error' next to the finals of
\* the others; and the attempted count of its summary is the sum of the
\* merged, skipped and failed counts.
C26_MergeStepAlwaysReturns ==
    MergeRan =>
        /\ MergeDone
        /\ \A id \in NormalizedIds :
              Cardinality({i \in DOMAIN context.finalMergedEntities :
                              context.finalMergedEntities[i].id = id}) = 1
        /\ {e.id : e \in Range(context.finalMergedEntities)} = NormalizedIds
        /\ context.finalMergeSummary.totalEntitiesAttemptedToMerge
             = context.finalMergeSummary.totalMergedSuccessfully
                 + context.finalMergeSummary.totalSkippedDueToConflicts
                 + context.finalMergeSummary.totalFailedDuringMergeProcess

(***************************************************************************)
(* The order of the steps of a run of the orchestrator.                    *)
(***************************************************************************)
StepOrder == <<"validation", "scan", "resolve", "normalize", "merge", "render", "finish", "done">>

StepIndex(s) == CHOOSE i \in DOMAIN StepOrder : StepOrder[i] = s

\* What each of the six steps leaves in the context when it returns.
StepOutputs ==
    <<"validationReport", "analyzedWorkspaces", "mergedEntities", "normalizedEntities",
      "finalMergedEntities", "outputFiles">>

\* The run is at a step: the steps before it have returned, that step and
\* the steps after it have not run.
AtStepInOrder ==
    step # "done" =>
        /\ ~result.returned
        /\ context.currentStepStatus = "running"
        /\ \A i \in DOMAIN StepOutputs :
              StepOutputs[i] \in DOMAIN context <=> i < StepIndex(step)

FailureReported ==
    (result.returned /\ ~result.success) =>
        /\ step = "done"
        /\ "overallErrorMessage" \in DOMAIN context
        /\ result.error = context.overallErrorMessage
        /\ context.currentStepStatus = "failed"
        /\ "outputFiles" \notin DOMAIN context

SuccessOnlyAfterAllSteps ==
    (result.returned /\ result.success) =>
        /\ step = "done"
        /\ context.currentStepStatus = "completed"
        /\ \A i \in DOMAIN StepOutputs : StepOutputs[i] \in DOMAIN context

\* A step of the run: taken before the run returned; it moves to the next
\* step of the order, or it throws and the run returns a failure.
StepInOrder ==
    /\ ~result.returned
    /\ \/ /\ StepIndex(step') = StepIndex(step) + 1
          /\ step' = "done" => (result'.returned /\ result'.success)
          /\ step' # "done" => ~result'.returned
       \/ /\ step' = "done"
          /\ result'.returned
          /\ ~result'.success

\* C27: the six steps run in the fixed order validation, scan,
\* resolve-and-merge, normalize, merge, render, each at most once and only
\* after the earlier ones returned; once one throws, no later step runs and
\* the result is a failure with the thrown message and status 'failed';
\* success is returned only after all six, with status 'completed'.
C27_StepsInFixedOrder ==
    /\ [](AtStepInOrder /\ FailureReported /\ SuccessOnlyAfterAllSteps)
    /\ [][StepInOrder]_vars

\* The run failed in the merge step, after four steps had returned.
C27_Witness ==
    /\ result.returned
    /\ ~result.success
    /\ "normalizedEntities" \in DOMAIN context
    /\ "finalMergedEntities" \notin DOMAIN context

\* The run returned success after all six steps.
C27_WitnessSuccess ==
    /\ result.returned
    /\ result.success
    /\ context.analyzedWorkspaces # <<>>

(***************************************************************************)
(* The pipeline from the resolve step on, over projects whose files export *)
(* functions whose names differ only in the case of a letter.              *)
(***************************************************************************)
SpellingContents ==
    {<<>>,
     <<ExportedFunction("formatDate")>>,
     <<ExportedFunction("formatdate")>>,
     <<ExportedFunction("formatDate"), ExportedFunction("formatdate")>>}

SpellingFilesAt(p) ==
    {Analysis(p, "utils/b.tsx", "util", loc, <<>>, funcs) :
        loc \in Locs, funcs \in SpellingContents}

RECURSIVE SpellingWorkspacesOf(_)
SpellingWorkspacesOf(n) ==
    IF n = 0 THEN {<<>>}
    ELSE {Append(ws, [analyzedFiles |-> <<f>>]) :
            ws \in SpellingWorkspacesOf(n - 1), f \in SpellingFilesAt(n)}

SpellingInputs == UNION {SpellingWorkspacesOf(n) : n \in 1 .. MaxProjects}

InitSpelling ==
    /\ step = "resolve"
    /\ \E ws \in SpellingInputs :
          context = [currentStepStatus |-> "running", overallSuccess |-> FALSE,
                     validationReport |-> [overallStatus |-> "passed"],
                     analyzedWorkspaces |-> ws]
    /\ result = [returned |-> FALSE]
    /\ mergeCalls = <<>>
    /\ firstRun = NoRun
    /\ analysis = [analyzedFiles |-> <<>>]
    /\ GraphInit

NextSpelling == ResolveAndMerge \/ Normalize \/ Merge \/ Render \/ Finish

SpecSpelling == InitSpelling /\ [][NextSpelling]_vars

\* C28: after the resolve step, two emitted entities with the same unified
\* id (or the same unified path) are of the same kind and name; and every
\* group the merge step hands to deepSmartMerge holds entities of one name.
C28_DistinctGroupsDistinctIds ==
    ResolveDone =>
        /\ \A x, y \in EmittedEntities :
              (x.entity.id = y.entity.id \/ x.entity.unifiedPath = y.entity.unifiedPath)
                 => (x.kind = y.kind /\ x.entity.name = y.entity.name)
        /\ \A call \in Range(mergeCalls) : \A e \in Range(call.entitiesToMerge) :
              e.name = call.entityName

(***************************************************************************)
(* Pre-flight validation (importValidator.ts, validator/workspaceAnalyzer  *)
(* .ts) of one project without tsconfig.json and without dependency        *)
(* conflicts: the project is the list of its scanned files, a code file    *)
(* carrying the sources of its static import declarations.  Paths are      *)
(* relative to the project root.                                           *)
(***************************************************************************)
COMMON_RESOLVABLE_EXTENSIONS ==
    <<".ts", ".tsx", ".js", ".jsx", ".json", ".css", ".scss", ".less",
      ".png", ".jpg", ".jpeg", ".gif", ".svg">>

\* The absolute paths tried for an import source, in order; no tsconfig
\* aliases.
possibleAbsolutePaths(fromFilePath, importSource) ==
    IF startsWithDot(importSource)
    THEN <<ResolveSegments(dirname(fromFilePath), importSource)>>
    ELSE IF startsWithSlash(importSource)
    THEN <<Tail(importSource), <<"src">> \o Tail(importSource)>>
    ELSE <<SpecifierText(importSource), <<"src">> \o SpecifierText(importSource)>>

\* The tries for one absolute path: the exact path, then for each extension
\* the path with it and the index file with it.
ValidationTries(absPath) ==
    <<absPath>> \o
    Flatten([e \in DOMAIN COMMON_RESOLVABLE_EXTENSIONS |->
        <<IF endsWith(absPath, COMMON_RESOLVABLE_EXTENSIONS[e]) THEN absPath
          ELSE Append(absPath, COMMON_RESOLVABLE_EXTENSIONS[e]),
          absPath \o <<"index", COMMON_RESOLVABLE_EXTENSIONS[e]>>>>])

\* <<file>> for the scanned file found, <<>> for null.
resolveImportPathForValidation(fromFilePath, importSource, allProjectFiles) ==
    IF ~startsWithDot(importSource) /\ ~startsWithSlash(importSource)
          /\ ~startsWithAt(importSource)
    THEN <<>>
    ELSE LET tries == Flatten([b \in DOMAIN possibleAbsolutePaths(fromFilePath, importSource) |->
                          ValidationTries(possibleAbsolutePaths(fromFilePath, importSource)[b])])
             found == {i \in DOMAIN tries :
                          \E f \in Range(allProjectFiles) : f.absolutePath = tries[i]}
         IN IF found = {} THEN <<>>
            ELSE LET first == CHOOSE i \in found : \A j \in found : i <= j
                 IN <<CHOOSE f \in Range(allProjectFiles) : f.absolutePath = tries[first]>>

UnresolvedImportIssue(file, importSource) ==
    [type |-> "error", message |-> "Unresolved import path", importSource |-> importSource,
     filePath |-> file.absolutePath]

\* The issues of the ImportDeclaration visitor for one code file.
ImportIssuesOf(file, scannedFiles) ==
    LET unresolved ==
          SelectSeq(file.imports,
                    LAMBDA src : resolveImportPathForValidation(file.absolutePath, src,
                                                                scannedFiles) = <<>>)
    IN [i \in DOMAIN unresolved |-> UnresolvedImportIssue(file, unresolved[i])]

checkImports(scannedFiles) ==
    LET codeFiles == SelectSeq(scannedFiles,
                               LAMBDA f : f.extension \in {".ts", ".tsx", ".js", ".jsx"})
    IN Flatten([i \in DOMAIN codeFiles |-> ImportIssuesOf(codeFiles[i], scannedFiles)])

runValidation(scannedFiles) ==
    LET issues == checkImports(scannedFiles)
        criticalErrors == Cardinality({i \in DOMAIN issues : issues[i].type = "error"})
        warnings == Cardinality({i \in DOMAIN issues : issues[i].type = "warning"})
    IN [overallStatus |-> IF criticalErrors > 0 THEN "failed"
                          ELSE IF warnings > 0 THEN "warnings" ELSE "passed",
        issues |-> issues,
        summary |-> [criticalErrors |-> criticalErrors, warnings |-> warnings]]

\* number of import declarations of the importing file
MaxImports == 2

ImportSources ==
    {<<"react">>, <<".", "widgets">>, <<".", "missing">>, <<"@/", "widgets">>,
     <<"@scope", "pkg">>, <<"/", "widgets">>}

RECURSIVE ImportSourcesOf(_)
ImportSourcesOf(n) ==
    IF n = 0 THEN {<<>>}
    ELSE {Append(srcs, src) : srcs \in ImportSourcesOf(n - 1), src \in ImportSources}

ValidatedTargets ==
    <<<<"widgets", ".tsx">>, <<"widgets", "index", ".ts">>, <<"src", "widgets", ".ts">>>>

SimpleScannedFile(p, imports) ==
    [absolutePath |-> p, extension |-> Extension(p), imports |-> imports]

ValidatedProjects ==
    {<<SimpleScannedFile(<<"a", ".tsx">>, imports)>>
        \o SelectSeq([i \in DOMAIN ValidatedTargets |-> SimpleScannedFile(ValidatedTargets[i], <<>>)],
                     LAMBDA f : f.absolutePath \in present) :
        imports \in UNION {ImportSourcesOf(n) : n \in 0 .. MaxImports},
        present \in SUBSET Range(ValidatedTargets)}

InitValidate ==
    /\ step = "validation"
    /\ \E files \in ValidatedProjects :
          context = [currentStepStatus |-> "running", overallSuccess |-> FALSE,
                     projectRoots |-> files]
    /\ result = [returned |-> FALSE]
    /\ mergeCalls = <<>>
    /\ firstRun = NoRun
    /\ analysis = [analyzedFiles |-> <<>>]
    /\ GraphInit

\* Step 1 of runFusionOrchestrator, the report computed from the files.
ValidateProjects ==
    /\ step = "validation"
    /\ LET ctx == context @@ [validationReport |-> runValidation(context.projectRoots)]
       IN IF ctx.validationReport.overallStatus = "failed"
          THEN Fail(ctx, "Initial validation failed")
          ELSE step' = "scan" /\ context' = ctx /\ UNCHANGED result
    /\ UNCHANGED mergeCalls
    /\ UNCHANGED <<gvars, rvars>>

SpecValidate == InitValidate /\ [][ValidateProjects]_vars

Validated == "validationReport" \in DOMAIN context

\* The import sources of the code files of the validated project.
ImportedSources ==
    UNION {Range(f.imports) : f \in Range(context.projectRoots)}

\* C29: after validation, every issue is an unresolved-import error for a
\* source that starts with '.', '/' or '@'; and when a file imports the bare
\* package 'react' and every other import resolves, there is no issue, the
\* status is not 'failed' and the run goes on to the scan step.
C29_BareSpecifierNeverAnIssue ==
    Validated =>
        /\ \A issue \in Range(context.validationReport.issues) :
              IsInternalSpecifier(issue.importSource)
        /\ (\A src \in ImportedSources :
               IsInternalSpecifier(src) =>
                  resolveImportPathForValidation(<<"a", ".tsx">>, src, context.projectRoots) # <<>>)
            => /\ context.validationReport.issues = <<>>
               /\ context.validationReport.overallStatus # "failed"
               /\ step = "scan"
               /\ ~result.returned

(***************************************************************************)
(* The single-pass resolver (resolveStep.ts, runResolveStep): the conflict *)
(* list it builds.  It aggregates as the grouped resolver does and pushes  *)
(* its conflicts in line, group after group, into one list.                *)
(***************************************************************************)
resolveStep_Conflict(type, severity, entityType, name, relatedFiles) ==
    [type |-> type, severity |-> severity,
     message |-> [entityType |-> entityType, name |-> name],
     relatedFiles |-> relatedFiles]

\* [firstAnalysis.file.relativePath, currentAnalysis.file.relativePath]
PairOfPaths(first, cur) == <<first.file.relativePath, cur.file.relativePath>>

\* analyses.map(a => a.file.relativePath)
OriginalPathsOf(analyses) == [i \in DOMAIN analyses |-> analyses[i].file.relativePath]

resolveStep_RoleConflict(entityType, name, first, cur) ==
    IF RoleOf(first) # RoleOf(cur)
    THEN <<resolveStep_Conflict("role-mismatch", "error", entityType, name,
                                PairOfPaths(first, cur))>>
    ELSE <<>>

\* What one iteration of the component loop pushes.
resolveStep_ComponentMember(name, analyses, first, cur) ==
    resolveStep_RoleConflict("component", name, first, cur)
    \o (IF FindComponent(first, name) = 0 \/ FindComponent(cur, name) = 0 THEN <<>>
        ELSE (IF first.components[FindComponent(first, name)].isFunctional
                    # cur.components[FindComponent(cur, name)].isFunctional
              THEN <<resolveStep_Conflict("component-structural-difference", "error",
                                          "component", name, PairOfPaths(first, cur))>>
              ELSE <<>>)
          \o (IF ~compareNameCountProfiles(first.jsxElementsUsed, cur.jsxElementsUsed)
              THEN <<resolveStep_Conflict("component-jsx-profile-mismatch", "warning",
                                          "component", name, PairOfPaths(first, cur))>>
              ELSE <<>>)
          \o (IF ~compareNameCountProfiles(first.reactHooksUsed, cur.reactHooksUsed)
              THEN <<resolveStep_Conflict("component-hook-profile-mismatch", "warning",
                                          "component", name, PairOfPaths(first, cur))>>
              ELSE <<>>)
          \o (IF ~SameWhenSorted(HOCsOf(first, name), HOCsOf(cur, name))
              THEN <<resolveStep_Conflict("component-hoc-mismatch", "warning",
                                          "component", name, PairOfPaths(first, cur))>>
              ELSE <<>>))

\* conflictDetails.locDifference is set in some iteration.
resolveStep_LocDifference(name, analyses) ==
    \E i \in 2 .. Len(analyses) :
        /\ FindComponent(analyses[1], name) # 0
        /\ FindComponent(analyses[i], name) # 0
        /\ analyses[1].loc # analyses[i].loc

resolveStep_HookMember(name, analyses, first, cur) ==
    resolveStep_RoleConflict("hook", name, first, cur)
    \o (IF first.loc # cur.loc
        THEN <<resolveStep_Conflict("utility-loc-difference", "warning", "hook", name,
                                    OriginalPathsOf(analyses))>>
        ELSE <<>>)
    \o (IF ~compareNameCountProfiles(first.reactHooksUsed, cur.reactHooksUsed)
        THEN <<resolveStep_Conflict("component-hook-profile-mismatch", "warning", "hook", name,
                                    PairOfPaths(first, cur))>>
        ELSE <<>>)

resolveStep_ContextMember(name, analyses, first, cur) ==
    resolveStep_RoleConflict("context", name, first, cur)
    \o (IF ContextTypeOf(first, name) # ContextTypeOf(cur, name)
        THEN <<resolveStep_Conflict("context-type-mismatch", "warning", "context", name,
                                    PairOfPaths(first, cur))>>
        ELSE <<>>)

\* The mutant of resolveStep_UtilityMember: the roles are not compared.
resolveStep_UtilityMemberRoleUnchecked(name, analyses, first, cur) ==
    IF first.loc # cur.loc
    THEN <<resolveStep_Conflict("utility-loc-difference", "warning", "utility", name,
                                OriginalPathsOf(analyses))>>
    ELSE <<>>

resolveStep_UtilityMember(name, analyses, first, cur) ==
    resolveStep_RoleConflict("utility", name, first, cur)
    \o (IF first.loc # cur.loc
        THEN <<resolveStep_Conflict("utility-loc-difference", "warning", "utility", name,
                                    OriginalPathsOf(analyses))>>
        ELSE <<>>)

resolveStep_Member(name, analyses, cur, entityType) ==
    CASE entityType = "component" -> resolveStep_ComponentMember(name, analyses, analyses[1], cur)
      [] entityType = "hook"      -> resolveStep_HookMember(name, analyses, analyses[1], cur)
      [] entityType = "context"   -> resolveStep_ContextMember(name, analyses, analyses[1], cur)
      [] OTHER                    -> resolveStep_UtilityMember(name, analyses, analyses[1], cur)

\* allConflicts after the loop over the members of one group.
resolveStep_AfterLoop(allConflicts, name, analyses, entityType) ==
    allConflicts
    \o Flatten([i \in 1 .. Len(analyses) - 1 |->
                   resolveStep_Member(name, analyses, analyses[i + 1], entityType)])

\* The conflicts recorded so far for the files of the group name a
\* structural difference.
resolveStep_StructureNamed(allConflicts, analyses) ==
    \E c \in Range(allConflicts) :
        /\ \E op \in Range(OriginalPathsOf(analyses)) : op \in Range(c.relatedFiles)
        /\ c.type = "component-structural-difference"

\* allConflicts after one group: the loop, then for a component group whose
\* members differ in size the general structural warning.
resolveStep_AfterGroup(allConflicts, name, analyses, entityType) ==
    IF /\ entityType = "component"
       /\ resolveStep_LocDifference(name, analyses)
       /\ ~resolveStep_StructureNamed(
              resolveStep_AfterLoop(allConflicts, name, analyses, entityType), analyses)
    THEN Append(resolveStep_AfterLoop(allConflicts, name, analyses, entityType),
                resolveStep_Conflict("component-structural-difference", "warning", "component",
                                     name, OriginalPathsOf(analyses)))
    ELSE resolveStep_AfterLoop(allConflicts, name, analyses, entityType)

RECURSIVE resolveStep_AfterGroups(_, _, _)
resolveStep_AfterGroups(allConflicts, groups, entityType) ==
    IF groups = <<>> THEN allConflicts
    ELSE resolveStep_AfterGroups(
            resolveStep_AfterGroup(allConflicts, Head(groups)[1], Head(groups)[2], entityType),
            Tail(groups), entityType)

\* The conflict report of runResolveStep.
runResolveStep(workspaces) ==
    [conflictReport |->
        MergeConflictReport(
            resolveStep_AfterGroups(
                resolveStep_AfterGroups(
                    resolveStep_AfterGroups(
                        resolveStep_AfterGroups(<<>>, ByName(workspaces, "component"), "component"),
                        ByName(workspaces, "hook"), "hook"),
                    ByName(workspaces, "context"), "context"),
                ByName(workspaces, "utility"), "utility"))]

\* Of a list of conflicts: type, group and related files of each.
Blocking(conflicts) ==
    [i \in DOMAIN conflicts |->
        [type |-> conflicts[i].type, message |-> conflicts[i].message,
         relatedFiles |-> conflicts[i].relatedFiles]]

\* C30: on the workspaces of a resolved run, the single-pass resolver and
\* the grouped resolver report the same error-severity conflicts: the same
\* types, for the same groups, with the same related files, in the same
\* order.
C30_ResolversAgreeOnErrors ==
    ResolveDone =>
        Blocking(runResolveStep(context.analyzedWorkspaces).conflictReport.criticalErrors)
            = Blocking(context.resolveMergeConflicts.criticalErrors)

\* Both resolvers reported a role mismatch and a structural difference.
C30_Witness ==
    /\ ResolveDone
    /\ \E c \in Range(context.resolveMergeConflicts.criticalErrors) :
          c.type = "component-structural-difference"
    /\ \E c \in Range(context.resolveMergeConflicts.criticalErrors) :
          c.type = "role-mismatch" /\ c.message.entityType = "utility"
    /\ Len(runResolveStep(context.analyzedWorkspaces).conflictReport.criticalErrors) >= 3

=============================================================================
